---- MODULE Spec2Model ----
(***************************************************************************)
(* Conway's Game of Life on a toroidal grid, as implemented by the four    *)
(* rendering back ends of the repository:                                  *)
(*   "gol"     src/gol.js              WebGPU, first version               *)
(*   "gpu"     src/unnamed/part_000    WebGPU, with zoom and pause         *)
(*   "gl"      src/gol-webgl.js        WebGL (src/unnamed/part_001 has the *)
(*                                     same code, other overlay messages)  *)
(*   "gl2"     src/unnamed/part_002    WebGL2                              *)
(* A cell buffer is a row-major sequence of 0/1 values; index i of the     *)
(* source (0-based) is element i+1 of the sequence.                        *)
(***************************************************************************)
EXTENDS Integers, Sequences, FiniteSets, TLC

VARIABLES
    backend,        \* which of the four programs is running
    draws,          \* the values Math.random() takes in this run, per use
    isPaused,       \* this.isPaused
    now,            \* Date.now(), in ms
    lastResetTime,  \* this.lastResetTime
    lastInfoTime,   \* this.lastInfoTime
    cellSize,       \* this.cellSize
    hue,            \* this.hue
    canvasW,        \* this.canvas.width  (= window.innerWidth * devicePixelRatio)
    canvasH,        \* this.canvas.height
    width,          \* this.width
    height,         \* this.height
    bufs,           \* this.cellStateBuffers / this.textures, indexed 0..1
    framebuffers,   \* this.framebuffers, indexed 0..1: the id of the texture
                    \* that is the colour attachment of each (WebGL programs)
    uniforms,       \* the dimensions (and hue) last handed to the shaders
    pending,        \* number of requestAnimationFrame callbacks pending
    presented,      \* id of the buffer the last render pass drew, or NoBuf
    pausedTickAt,   \* history: instant of the last render() call that found isPaused
                    \* true since it became true, or NoTime
    resetSeen,      \* history: the 30 s reset trigger has fired at least once
    overlay,        \* the info overlay: [shown, since, timers], timers being the
                    \* instants at which the pending hide timers come due
    hist            \* history: [start, n], the grid a tracked run started from and
                    \* the number of frames computed since, or NoHist

vars == <<backend, draws, isPaused, now, lastResetTime, lastInfoTime, cellSize, hue,
          canvasW, canvasH, width, height, bufs, framebuffers, uniforms, pending,
          presented, pausedTickAt, resetSeen, overlay, hist>>

----------------------------------------------------------------------------
(* Bounds of the model.                                                    *)

\* the window is MaxPixel - 1 or MaxPixel physical pixels wide, MaxPixel high
MaxPixel == 4
\* a reseed draws one of 2^SeedBits patterns (period SeedBits along the buffer)
SeedBits == 2
\* the clock is observed at the instants Instant(0) .. Instant(MaxInstant)
MaxInstant == 2
\* gol.js advances its hue by 0.001 per frame; frames counted up to this cap
MaxHueSteps == 2
\* grids of the update-rule specification: at most MaxCells cells
MaxCells == 9
\* frames followed in a tracked run
MaxGen == 4
\* side of the grid the glider runs on
GliderSide == 6
\* waits of one info period followed in the runs with hide timers
MaxWaits == 2

----------------------------------------------------------------------------
(* Program constants.                                                      *)

WORKGROUP_SIZE == 8
defaultCellSize == 4
minCellSize == 1
RESET_INTERVAL == 30000
DEBUG_INTERVAL == 5000
\* the delay of the timer that hides the overlay, in ms
HideDelay == 5000

\* Date.now() at construction
StartTime == 10000

\* The instants at which the clock is observed: the start, then alternately
\* 30 s later (the reset period has elapsed exactly) and 5 s after that (the
\* reset period is exceeded, the info period has elapsed exactly).
Instant(k) == StartTime + (35000 * (k \div 2)) + (IF k % 2 = 1 THEN 30000 ELSE 0)

Backends == {"gol", "gpu", "gl", "gl2"}
GPU == {"gol", "gpu"}
NoBuf == 0 - 1
NoTime == 0 - 1
NoHist == [start |-> << >>, n |-> 0 - 1]

\* the overlay before the first message: hidden, no timer pending
NoOverlay == [shown |-> FALSE, since |-> 0 - 1, timers |-> {}]

\* Math.random() takes the values r / RandDen, r in 0 .. RandDen - 1
RandDen == 8

\* Math.random() * 60 + 120, in whole degrees
RandomHue(r) == ((r * 60) \div RandDen) + 120

\* the hues drawn: Math.random() = 0 and Math.random() = 4/8
Hues == {RandomHue(0), RandomHue(4)}

\* the hue drawn in the runs that do not vary it
MidHue == RandomHue(4)

----------------------------------------------------------------------------
(* 32-bit unsigned arithmetic of the WGSL compute shader, on two 16-bit    *)
(* limbs <<hi, lo>> (the value is hi * 65536 + lo).                        *)

Limb == 65536

ToU32(n) == <<(n \div Limb) % Limb, n % Limb>>

\* u32(dx) for a signed dx: two's complement
CastU32(d) == IF d < 0 THEN <<Limb - 1, Limb + d>> ELSE ToU32(d)

AddU32(a, b) ==
    LET lo == a[2] + b[2]
        hi == a[1] + b[1] + (lo \div Limb)
    IN  <<hi % Limb, lo % Limb>>

\* a % m for a u32 a and 0 < m < 2^15
ModU32(a, m) == (((a[1] % m) * (Limb % m)) + (a[2] % m)) % m

----------------------------------------------------------------------------
(* Buffers.  A buffer is [id, w, h, cells]: id tells allocations apart, w  *)
(* and h are the dimensions it was allocated (or last re-specified) with,  *)
(* cells its contents.                                                     *)

Zeros(n) == [i \in 1..n |-> 0]

\* device.createBuffer / gl.texImage2D(..., null): zero-initialised storage
NewBuf(id, w, h) == [id |-> id, w |-> w, h |-> h, cells |-> Zeros(w * h)]

\* the ids of a newly created pair: none of them is an id of the pair in use
FreshIds(b) == IF b[0].id \in {0, 1} THEN <<2, 3>> ELSE <<0, 1>>

Pair(b0, b1) == [i \in {0, 1} |-> IF i = 0 THEN b0 ELSE b1]

\* variant: the roles are exchanged by copying the contents across
SwapByCopy(b) ==
    Pair([b[0] EXCEPT !.cells = b[1].cells], [b[1] EXCEPT !.cells = b[0].cells])

\* [a[0], a[1]] = [a[1], a[0]]
Swap(b) == Pair(b[1], b[0])

\* textures.map(texture => fb), fb being a new framebuffer with texture as
\* its colour attachment
Attached(b) == [i \in {0, 1} |-> b[i].id]

\* the programs without framebuffers
NoFramebuffers == [i \in {0, 1} |-> 0 - 1]

\* variant: the cell takes the bits of the draw from its position on
SeedCellsRaw(s, n) == [i \in 1..n |-> s \div (2 ^ ((i - 1) % SeedBits))]

\* Math.random() > 0.5 ? 1 : 0 for every cell: cell i of draw s
SeedCells(s, n) == [i \in 1..n |-> (s \div (2 ^ ((i - 1) % SeedBits))) % 2]

Seeds == 0 .. (2 ^ SeedBits) - 1

\* texture2D / texture with NEAREST filtering at texel (tx, ty); an empty
\* texture samples as 0
Texel(tex, tx, ty) ==
    IF tx < tex.w /\ ty < tex.h /\ (ty * tex.w) + tx < Len(tex.cells)
    THEN tex.cells[(ty * tex.w) + tx + 1]
    ELSE 0

----------------------------------------------------------------------------
(* The update rule.                                                        *)

\* <<dx, dy>> in the order of the shader loops (dy outer, dx inner)
Offsets == << <<0 - 1, 0 - 1>>, <<0, 0 - 1>>, <<1, 0 - 1>>,
              <<0 - 1, 0>>,                   <<1, 0>>,
              <<0 - 1, 1>>,     <<0, 1>>,     <<1, 1>> >>

\* the sum accumulated over the eight offsets
Sum8(f) == f[1] + f[2] + f[3] + f[4] + f[5] + f[6] + f[7] + f[8]

\* variant: the current state is ignored, 2 or 3 neighbours give a live cell
selectAnyState(currentState, neighbors) ==
    IF neighbors = 2 \/ neighbors = 3 THEN 1 ELSE 0

\* variant: a dead cell is born on up to 3 neighbours
selectBornUpToThree(currentState, neighbors) ==
    IF currentState = 1
    THEN (IF neighbors = 2 \/ neighbors = 3 THEN 1 ELSE 0)
    ELSE (IF neighbors <= 3 THEN 1 ELSE 0)

\* variant: a live cell survives on up to 3 neighbours
selectSurviveUpToThree(currentState, neighbors) ==
    IF currentState = 1
    THEN (IF neighbors <= 3 THEN 1 ELSE 0)
    ELSE (IF neighbors = 3 THEN 1 ELSE 0)

\* variant: a live cell survives on 2 neighbours only
selectSurviveOnTwo(currentState, neighbors) ==
    IF currentState = 1
    THEN (IF neighbors = 2 THEN 1 ELSE 0)
    ELSE (IF neighbors = 3 THEN 1 ELSE 0)

\* the rule of Life on the current state and the neighbour sum
select(currentState, neighbors) ==
    IF currentState = 1
    THEN (IF neighbors = 2 \/ neighbors = 3 THEN 1 ELSE 0)
    ELSE (IF neighbors = 3 THEN 1 ELSE 0)

(* WebGPU compute shader (gol.js, part_000) *)

\* variant: x % width without adding width first
getCellStateNoAdd(input, uw, uh, X, Y) ==
    LET xWrapped == ModU32(X, uw)
        yWrapped == ModU32(Y, uh)
        index == (yWrapped * uw) + xWrapped
    IN  IF index < Len(input) THEN input[index + 1] ELSE 0

\* variant: the index is computed from x % width, without adding width
getCellIndexNoAdd(uw, uh, X, Y) ==
    (ModU32(Y, uh) * uw) + ModU32(X, uw)

\* yWrapped * width + xWrapped of getCellState, on u32 arguments
getCellIndex(uw, uh, X, Y) ==
    LET xWrapped == ModU32(AddU32(X, ToU32(uw)), uw)
        yWrapped == ModU32(AddU32(Y, ToU32(uh)), uh)
    IN  (yWrapped * uw) + xWrapped

\* getCellState(x, y) on u32 arguments; uw, uh are uniforms.width/height
getCellState(input, uw, uh, X, Y) ==
    LET index == getCellIndex(uw, uh, X, Y)
    IN  IF index < Len(input) THEN input[index + 1] ELSE 0

\* variant: every cell other than (x, y) that some offset reaches is counted
\* once
neighborsGPUDistinct(input, uw, uh, x, y) ==
    LET reached == {getCellIndex(uw, uh,
                                 AddU32(ToU32(x), CastU32(Offsets[k][1])),
                                 AddU32(ToU32(y), CastU32(Offsets[k][2]))) : k \in 1 .. 8}
    IN  Cardinality({i \in reached \ {(y * uw) + x} : i < Len(input) /\ input[i + 1] = 1})

\* variant: the loop does not skip dx = 0, dy = 0
neighborsGPUWithSelf(input, uw, uh, x, y) ==
    LET at(k) == getCellState(input, uw, uh,
                              AddU32(ToU32(x), CastU32(Offsets[k][1])),
                              AddU32(ToU32(y), CastU32(Offsets[k][2])))
    IN  Sum8([k \in 1 .. 8 |-> at(k)]) + getCellState(input, uw, uh, ToU32(x), ToU32(y))

neighborsGPU(input, uw, uh, x, y) ==
    LET at(k) == getCellState(input, uw, uh,
                              AddU32(ToU32(x), CastU32(Offsets[k][1])),
                              AddU32(ToU32(y), CastU32(Offsets[k][2])))
    IN  Sum8([k \in 1 .. 8 |-> at(k)])

\* the value computeMain stores at output[y * width + x]
computeMain(input, uw, uh, x, y) ==
    select(input[(y * uw) + x + 1], neighborsGPU(input, uw, uh, x, y))

\* variant: no early return for x >= width or y >= height
InvokeUnguarded(input, output, uw, uh, gx, gy) ==
    IF (gy * uw) + gx < Len(output)
    THEN [output EXCEPT ![(gy * uw) + gx + 1] =
            select(input[(gy * uw) + gx + 1],
                   neighborsGPU(input, uw, uh, gx % uw, gy % uh))]
    ELSE output

\* one invocation of computeMain, global_invocation_id = (gx, gy): the
\* contents of output after it
Invoke(input, output, uw, uh, gx, gy) ==
    IF gx >= uw \/ gy >= uh THEN output
    ELSE IF (gy * uw) + gx < Len(output) /\ (gy * uw) + gx < Len(input)
    THEN [output EXCEPT ![(gy * uw) + gx + 1] = computeMain(input, uw, uh, gx, gy)]
    ELSE output

\* the global invocation ids of dispatchWorkgroups(ceil(w / 8), ceil(h / 8))
\* with @workgroup_size(8, 8)
Dispatch(w, h) ==
    (0 .. (((w + (WORKGROUP_SIZE - 1)) \div WORKGROUP_SIZE) * WORKGROUP_SIZE) - 1)
      \X (0 .. (((h + (WORKGROUP_SIZE - 1)) \div WORKGROUP_SIZE) * WORKGROUP_SIZE) - 1)

\* variant: a cell that is live in the output buffer stays live
ComputePassKeepsLive(input, output, uw, uh, w, h) ==
    [i \in 1..Len(output) |->
        LET x == (i - 1) % uw
            y == (i - 1) \div uw
        IN  IF ~(x >= uw \/ y >= uh) /\ (y * uw) + x < Len(input)
            THEN (IF output[i] = 1 THEN 1 ELSE computeMain(input, uw, uh, x, y))
            ELSE output[i]]

\* dispatchWorkgroups(ceil(w / 8), ceil(h / 8)): the new contents of output
ComputePass(input, output, uw, uh, w, h) ==
    LET workgroupsX == (w + (WORKGROUP_SIZE - 1)) \div WORKGROUP_SIZE
        workgroupsY == (h + (WORKGROUP_SIZE - 1)) \div WORKGROUP_SIZE
    IN  [i \in 1..Len(output) |->
            LET x == (i - 1) % uw
                y == (i - 1) \div uw
            IN  IF /\ x < workgroupsX * WORKGROUP_SIZE
                   /\ y < workgroupsY * WORKGROUP_SIZE
                   /\ ~(x >= uw \/ y >= uh)
                   /\ (y * uw) + x < Len(input)
                THEN computeMain(input, uw, uh, x, y)
                ELSE output[i]]

(* WebGL simulation shader (gol-webgl.js, part_001).  Coordinates are kept *)
(* in half texels: uv.x = (2x + 1) / (2w) for the fragment of column x.    *)

\* getCell(offset): fract(uv + offset * scale), then the nearest texel
getCell(tex, w, h, x, y, dx, dy) ==
    LET cx == ((2 * x) + 1 + (2 * dx)) % (2 * w)
        cy == ((2 * y) + 1 + (2 * dy)) % (2 * h)
    IN  Texel(tex, (cx * tex.w) \div (2 * w), (cy * tex.h) \div (2 * h))

\* int sum = getCell(vec2(-1.0, -1.0)) + ... + getCell(vec2(1.0, 1.0))
neighborsGL(tex, w, h, x, y) ==
    LET at(k) == getCell(tex, w, h, x, y, Offsets[k][1], Offsets[k][2])
    IN  Sum8([k \in 1 .. 8 |-> at(k)])

mainGL(tex, w, h, x, y) ==
    select(getCell(tex, w, h, x, y, 0, 0), neighborsGL(tex, w, h, x, y))

(* WebGL2 shader (part_002): texel = floor(uv * resolution), and          *)
(* getCell(coord) samples at mod(coord, resolution) / resolution.          *)

getCell2(tex, w, h, cx, cy) ==
    Texel(tex, ((cx % w) * tex.w) \div w, ((cy % h) * tex.h) \div h)

neighborsGL2(tex, w, h, x, y) ==
    LET at(k) == getCell2(tex, w, h, x + Offsets[k][1], y + Offsets[k][2])
    IN  Sum8([k \in 1 .. 8 |-> at(k)])

mainGL2(tex, w, h, x, y) ==
    select(getCell2(tex, w, h, x, y), neighborsGL2(tex, w, h, x, y))

\* drawArrays into the framebuffer of texture dst with viewport (0, 0, w, h):
\* one fragment per texel of dst inside the viewport
DrawPass(be, src, dst, w, h) ==
    [i \in 1..Len(dst.cells) |->
        LET x == (i - 1) % dst.w
            y == (i - 1) \div dst.w
        IN  IF x < w /\ y < h
            THEN (IF be = "gl" THEN mainGL(src, w, h, x, y)
                                ELSE mainGL2(src, w, h, x, y))
            ELSE dst.cells[i]]

----------------------------------------------------------------------------
(* The render shaders.  A colour is <<r, g, b>> in units of 1 / ColourUnit; *)
(* a hue is in whole degrees, saturation and lightness are in tenths.  The  *)
(* arithmetic is exact: c is in hundredths, the hue factor in sixtieths.    *)

ColourUnit == 6000

Abs(n) == IF n < 0 THEN 0 - n ELSE n

\* the last lines of hsl2rgb: the sector chosen by h, and rgb + m
Sector(h, c, x, m) ==
    LET rgb == IF h < 60 THEN <<c, x, 0>>
               ELSE IF h < 120 THEN <<x, c, 0>>
               ELSE IF h < 180 THEN <<0, c, x>>
               ELSE IF h < 240 THEN <<0, x, c>>
               ELSE IF h < 300 THEN <<x, 0, c>>
               ELSE <<c, 0, x>>
    IN  <<rgb[1] + m, rgb[2] + m, rgb[3] + m>>

\* variant: m = l - c
hsl2rgbWGSLFullChroma(h, s, l) ==
    LET c == (10 - Abs((2 * l) - 10)) * s
        x == c * (60 - Abs((2 * (h % 60)) - 60))
        m == (600 * l) - (60 * c)
    IN  Sector(h, 60 * c, x, m)

\* hsl2rgb of part_000 (WGSL): x = c * (1 - abs(fract(h / 60) * 2 - 1))
hsl2rgbWGSL(h, s, l) ==
    LET c == (10 - Abs((2 * l) - 10)) * s
        x == c * (60 - Abs((2 * (h % 60)) - 60))
        m == (600 * l) - (30 * c)
    IN  Sector(h, 60 * c, x, m)

\* hsl2rgb of gol-webgl.js (GLSL): x = c * (1 - abs(mod(h / 60, 2) - 1))
hsl2rgbGLSL(h, s, l) ==
    LET c == (10 - Abs((2 * l) - 10)) * s
        x == c * (60 - Abs((h % 120) - 60))
        m == (600 * l) - (30 * c)
    IN  Sector(h, 60 * c, x, m)

\* vec4(v, v, v, 1.0)
Grey(tenths) == <<600 * tenths, 600 * tenths, 600 * tenths>>

\* the colour the fragment shader of program be gives a pixel whose cell is
\* alive (1) or dead (0), with hue uniform h; inGrid: the pixel lies inside
\* the rectangle of width x height pixels at the origin (part_002 only)
fragmentMain(be, alive, h, inGrid) ==
    IF be = "gpu"
    THEN (IF alive = 1 THEN hsl2rgbWGSL(h, 8, 4) ELSE Grey(1))
    ELSE IF be = "gol"
    THEN (IF alive = 1 THEN <<0, 4800, 2400>> ELSE Grey(1))
    ELSE IF be = "gl"
    THEN (IF alive = 1 THEN hsl2rgbGLSL(h, 8, 4) ELSE Grey(0))
    ELSE IF inGrid THEN Grey(10 * alive)
    ELSE (IF alive = 1 THEN <<0, 4800, 2400>> ELSE Grey(1))

----------------------------------------------------------------------------
(* The object.  The methods are functions on the record of its fields; an  *)
(* action installs the record a handler ends with.                         *)

This ==
    [cellSize |-> cellSize, hue |-> hue, canvasW |-> canvasW, canvasH |-> canvasH,
     width |-> width, height |-> height, bufs |-> bufs,
     framebuffers |-> framebuffers, uniforms |-> uniforms,
     lastResetTime |-> lastResetTime, lastInfoTime |-> lastInfoTime,
     presented |-> presented, overlay |-> overlay]

Install(t) ==
    /\ cellSize' = t.cellSize
    /\ hue' = t.hue
    /\ canvasW' = t.canvasW
    /\ canvasH' = t.canvasH
    /\ width' = t.width
    /\ height' = t.height
    /\ bufs' = t.bufs
    /\ framebuffers' = t.framebuffers
    /\ uniforms' = t.uniforms
    /\ lastResetTime' = t.lastResetTime
    /\ lastInfoTime' = t.lastInfoTime
    /\ presented' = t.presented
    /\ overlay' = t.overlay

\* reset(): a new hue (part_000, gol-webgl.js) and a random state, written to
\* cellStateBuffers[0] (WebGPU), to both textures (gol-webgl.js) or to
\* textures[0] (part_002)
reset(be, t, seed, hueDraw) ==
    LET state == SeedCells(seed, t.width * t.height)
        tex(b) == [id |-> b.id, w |-> t.width, h |-> t.height, cells |-> state]
    IN  [t EXCEPT
          !.hue = IF be \in {"gpu", "gl"} THEN hueDraw ELSE @,
          !.bufs = IF be \in GPU
                   THEN (IF Len(state) = Len(@[0].cells)
                         THEN Pair([@[0] EXCEPT !.cells = state], @[1])
                         ELSE @)
                   ELSE IF be = "gl" THEN Pair(tex(@[0]), tex(@[1]))
                   ELSE Pair(tex(@[0]), @[1])]

\* createBuffers() of the WebGPU programs: both cell buffers, the uniform
\* buffer (width, height and, in part_000, the hue), then reset()
createBuffers(be, t, seed, hueDraw) ==
    LET ids == FreshIds(t.bufs)
        t1 == [t EXCEPT
                 !.bufs = Pair(NewBuf(ids[1], t.width, t.height),
                               NewBuf(ids[2], t.width, t.height)),
                 !.uniforms = [width |-> t.width, height |-> t.height,
                               hue |-> IF be = "gpu" THEN t.hue ELSE 0]]
    IN  reset(be, t1, seed, hueDraw)

\* the WebGL programs: two new textures of the grid's dimensions, and a new
\* framebuffer for each of them
createTextures(t, ids) ==
    LET textures == Pair(NewBuf(ids[1], t.width, t.height),
                         NewBuf(ids[2], t.width, t.height))
    IN  [t EXCEPT !.bufs = textures, !.framebuffers = Attached(textures)]

\* variant: the dimensions are recomputed, the buffers are kept
resizeKeepBuffers(be, t, W, H, seed, hueDraw) ==
    [t EXCEPT !.canvasW = W, !.canvasH = H,
              !.width = W \div t.cellSize,
              !.height = H \div t.cellSize]

\* variant: the grid dimensions are rounded up instead of down
resizeRoundUp(be, t, W, H, seed, hueDraw) ==
    LET t1 == [t EXCEPT !.canvasW = W, !.canvasH = H,
                        !.width = (W + t.cellSize - 1) \div t.cellSize,
                        !.height = (H + t.cellSize - 1) \div t.cellSize]
        ids == FreshIds(t.bufs)
    IN  IF be \in GPU THEN createBuffers(be, t1, seed, hueDraw)
        ELSE IF be = "gl"
        THEN reset(be, createTextures(t1, ids), seed, hueDraw)
        ELSE t1

\* resize(): the canvas takes the window's size (W, H), the grid dimensions
\* are recomputed, and the buffers are recreated (not in part_002)
resize(be, t, W, H, seed, hueDraw) ==
    LET t1 == [t EXCEPT !.canvasW = W, !.canvasH = H,
                        !.width = W \div t.cellSize,
                        !.height = H \div t.cellSize]
        ids == FreshIds(t.bufs)
    IN  IF be \in GPU THEN createBuffers(be, t1, seed, hueDraw)
        ELSE IF be = "gl"
        THEN reset(be, createTextures(t1, ids), seed, hueDraw)
        ELSE t1

\* variant: sizes 3 to 10
RandomCellSizeTo10(r) == ((r * 8) \div RandDen) + 3

\* Math.floor(Math.random() * 8) + 2, for Math.random() = r / RandDen
RandomCellSize(r) == ((r * 8) \div RandDen) + 2

\* the values of Math.random() drawn for the cell size: 0, 3/8 and 7/8
Rands == {0, 3, 7}

\* variant: the trigger is due as soon as the period has elapsed
ResetDueAtPeriod(t) == now - t.lastResetTime >= RESET_INTERVAL

ResetDue(t) == now - t.lastResetTime > RESET_INTERVAL

InfoDue(t) == now - t.lastInfoTime > DEBUG_INTERVAL

\* variant: the trigger sets the cell size and reseeds, without resize()
ResetTriggerNoResize(be, t, r, seed, hueDraw) ==
    IF ~(now - t.lastResetTime > RESET_INTERVAL) THEN t
    ELSE reset(be, [t EXCEPT !.lastResetTime = now,
                             !.cellSize = ((r * 8) \div RandDen) + 2],
               seed, hueDraw)

\* the reset trigger of render()
ResetTrigger(be, t, r, seed, hueDraw) ==
    IF ~ResetDue(t) THEN t
    ELSE IF be = "gl2"
    THEN reset(be, [t EXCEPT !.lastResetTime = now], seed, hueDraw)
    ELSE resize(be, [t EXCEPT !.lastResetTime = now, !.cellSize = RandomCellSize(r)],
                t.canvasW, t.canvasH, seed, hueDraw)

\* showInfo(): the overlay gets a message and is displayed, and a timer is
\* set that hides it; the timers set before stay pending
showInfo(t) ==
    [t EXCEPT !.overlay = [shown |-> TRUE, since |-> now,
                           timers |-> @.timers \cup {now + HideDelay}]]

\* variant: the info trigger restarts the reset period as well
InfoTriggerSharedClock(t) ==
    IF now - t.lastInfoTime > DEBUG_INTERVAL
    THEN showInfo([t EXCEPT !.lastInfoTime = now, !.lastResetTime = now])
    ELSE t

\* the info trigger of render()
InfoTrigger(t) ==
    IF InfoDue(t) THEN showInfo([t EXCEPT !.lastInfoTime = now]) ELSE t

\* gol.js: this.hue = (this.hue + 0.001) % 1.0, written to the uniform buffer;
\* the hue of gol.js is kept in thousandths
UpdateHue(be, t) ==
    IF be = "gol"
    THEN [t EXCEPT !.hue = (@ + 1) % 1000,
                   !.uniforms = [@ EXCEPT !.hue = (t.hue + 1) % 1000]]
    ELSE t

\* variant: the frame is computed and presented, the pair is not swapped
FrameNoSwap(be, t) ==
    LET u == IF be \in GPU THEN t.uniforms
             ELSE [width |-> t.width, height |-> t.height,
                   hue |-> IF be = "gl" THEN t.hue ELSE 0]
        out == IF be \in GPU
               THEN ComputePass(t.bufs[0].cells, t.bufs[1].cells,
                                u.width, u.height, t.width, t.height)
               ELSE IF t.framebuffers[1] = t.bufs[1].id
               THEN DrawPass(be, t.bufs[0], t.bufs[1], u.width, u.height)
               ELSE t.bufs[1].cells
        written == [t.bufs[1] EXCEPT !.cells = out]
    IN  [t EXCEPT !.uniforms = u,
                  !.presented = written.id,
                  !.bufs = Pair(t.bufs[0], written)]

\* variant: the textures are swapped, the framebuffers are not
FrameSwapsTexturesOnly(be, t) ==
    LET u == IF be \in GPU THEN t.uniforms
             ELSE [width |-> t.width, height |-> t.height,
                   hue |-> IF be = "gl" THEN t.hue ELSE 0]
        out == IF be \in GPU
               THEN ComputePass(t.bufs[0].cells, t.bufs[1].cells,
                                u.width, u.height, t.width, t.height)
               ELSE IF t.framebuffers[1] = t.bufs[1].id
               THEN DrawPass(be, t.bufs[0], t.bufs[1], u.width, u.height)
               ELSE t.bufs[1].cells
        written == [t.bufs[1] EXCEPT !.cells = out]
    IN  [t EXCEPT !.uniforms = u,
                  !.presented = written.id,
                  !.bufs = Swap(Pair(t.bufs[0], written))]

\* variant: the render step draws the buffer the simulation step read
FramePresentsRead(be, t) ==
    LET u == IF be \in GPU THEN t.uniforms
             ELSE [width |-> t.width, height |-> t.height,
                   hue |-> IF be = "gl" THEN t.hue ELSE 0]
        out == IF be \in GPU
               THEN ComputePass(t.bufs[0].cells, t.bufs[1].cells,
                                u.width, u.height, t.width, t.height)
               ELSE IF t.framebuffers[1] = t.bufs[1].id
               THEN DrawPass(be, t.bufs[0], t.bufs[1], u.width, u.height)
               ELSE t.bufs[1].cells
        written == [t.bufs[1] EXCEPT !.cells = out]
    IN  [t EXCEPT !.uniforms = u,
                  !.presented = t.bufs[0].id,
                  !.bufs = Swap(Pair(t.bufs[0], written)),
                  !.framebuffers = [i \in {0, 1} |-> @[1 - i]]]

\* the simulation step, the render step and the swap of render().  The
\* WebGL programs draw into framebuffers[1]; if its attachment is not
\* textures[1], textures[1] is not written (a draw into the texture that is
\* sampled is an error and draws nothing)
Frame(be, t) ==
    LET u == IF be \in GPU THEN t.uniforms
             ELSE [width |-> t.width, height |-> t.height,
                   hue |-> IF be = "gl" THEN t.hue ELSE 0]
        out == IF be \in GPU
               THEN ComputePass(t.bufs[0].cells, t.bufs[1].cells,
                                u.width, u.height, t.width, t.height)
               ELSE IF t.framebuffers[1] = t.bufs[1].id
               THEN DrawPass(be, t.bufs[0], t.bufs[1], u.width, u.height)
               ELSE t.bufs[1].cells
        written == [t.bufs[1] EXCEPT !.cells = out]
    IN  [t EXCEPT !.uniforms = u,
                  !.presented = written.id,
                  !.bufs = Swap(Pair(t.bufs[0], written)),
                  !.framebuffers = [i \in {0, 1} |-> @[1 - i]]]

\* render() when not paused, in the order of each program
render(be, t, r, seed, hueDraw) ==
    IF be = "gl"
    THEN Frame(be, ResetTrigger(be, InfoTrigger(t), r, seed, hueDraw))
    ELSE Frame(be, InfoTrigger(UpdateHue(be, ResetTrigger(be, t, r, seed, hueDraw))))

----------------------------------------------------------------------------
(* The state after construction: constructor and init() have run, the      *)
(* first render() is about to be called.                                   *)

\* <<window.innerWidth, window.innerHeight>> times devicePixelRatio
Windows == {<<MaxPixel - 1, MaxPixel>>, <<MaxPixel, MaxPixel>>}

\* the fields the constructor sets, before any buffer exists
Constructed(be, W, H, hueDraw) ==
    [cellSize |-> 4,
     hue |-> IF be \in {"gpu", "gl"} THEN hueDraw ELSE 0,
     canvasW |-> W, canvasH |-> H,
     width |-> W \div 4, height |-> H \div 4,
     bufs |-> IF be \in GPU THEN Pair(NewBuf(0, 0, 0), NewBuf(1, 0, 0))
              ELSE Pair(NewBuf(2, 0, 0), NewBuf(3, 0, 0)),
     framebuffers |-> NoFramebuffers,
     uniforms |-> [width |-> 0, height |-> 0, hue |-> 0],
     lastResetTime |-> StartTime, lastInfoTime |-> 0,
     presented |-> NoBuf, overlay |-> NoOverlay]

\* init(): resize(), which creates the buffers, and createBuffers() once
\* more (WebGPU); the textures and reset() (gol-webgl.js); resize() and
\* createBuffers() (part_002)
init(be, W, H, seed, hueDraw, hueDraw2, hueDraw3) ==
    LET t == Constructed(be, W, H, hueDraw)
    IN  IF be \in GPU
        THEN createBuffers(be, resize(be, t, W, H, seed, hueDraw2), seed, hueDraw3)
        ELSE IF be = "gl" THEN resize(be, t, W, H, seed, hueDraw2)
        ELSE reset(be, createTextures(t, <<0, 1>>), seed, hueDraw2)

\* the state after construction of program be, with the given draws
Start(be, d) ==
    /\ backend = be
    /\ draws = d
    /\ isPaused = FALSE
    /\ now = StartTime
    /\ pending = 1
    /\ pausedTickAt = NoTime
    /\ resetSeen = FALSE
    /\ hist = NoHist
    /\ \E win \in Windows, seed \in d.seeds, h1 \in d.hues, h2 \in d.hues, h3 \in d.hues :
         LET t == init(be, win[1], win[2], seed, h1, h2, h3)
         IN  /\ cellSize = t.cellSize
             /\ hue = t.hue
             /\ canvasW = t.canvasW
             /\ canvasH = t.canvasH
             /\ width = t.width
             /\ height = t.height
             /\ bufs = t.bufs
             /\ framebuffers = t.framebuffers
             /\ uniforms = t.uniforms
             /\ lastResetTime = t.lastResetTime
             /\ lastInfoTime = t.lastInfoTime
             /\ presented = t.presented
             /\ overlay = t.overlay

\* every program; the cell-size and seed draws vary, the hue draw does not
Init ==
    \E be \in Backends :
        Start(be, [hues |-> {MidHue}, seeds |-> Seeds, rands |-> Rands])

----------------------------------------------------------------------------
(* Actions: the frame callback and the event handlers.                     *)

\* gol.js never looks at isPaused
PauseChecked == backend # "gol"

\* variant: the paused frame returns without requestAnimationFrame
TickPausedNoReschedule ==
    /\ pending > 0
    /\ PauseChecked /\ isPaused
    /\ pending' = pending - 1
    /\ pausedTickAt' = now
    /\ UNCHANGED <<backend, draws, hist, isPaused, now, lastResetTime, lastInfoTime, cellSize,
                   hue, canvasW, canvasH, width, height, bufs, framebuffers, uniforms,
                   presented, resetSeen, overlay>>

\* variant: the triggers are evaluated before the pause check
TickPausedTimers ==
    /\ pending > 0
    /\ PauseChecked /\ isPaused
    /\ pending' = (pending - 1) + 1
    /\ pausedTickAt' = now
    /\ IF ResetDue(This)
       THEN /\ \E r \in draws.rands, seed \in draws.seeds, hueDraw \in draws.hues :
                 Install(InfoTrigger(ResetTrigger(backend, This, r, seed, hueDraw)))
            /\ resetSeen' = TRUE
       ELSE /\ Install(InfoTrigger(This))
            /\ UNCHANGED resetSeen
    /\ UNCHANGED <<backend, draws, hist, isPaused, now>>

\* variant: the frame is computed, presented and swapped although paused
TickPausedRuns ==
    /\ pending > 0
    /\ PauseChecked /\ isPaused
    /\ pending' = (pending - 1) + 1
    /\ pausedTickAt' = now
    /\ Install(Frame(backend, This))
    /\ UNCHANGED <<backend, draws, hist, isPaused, now, resetSeen>>

\* render() while paused: only requestAnimationFrame(this.render)
TickPaused ==
    /\ pending > 0
    /\ PauseChecked /\ isPaused
    /\ pending' = (pending - 1) + 1
    /\ pausedTickAt' = now
    /\ UNCHANGED <<backend, draws, hist, isPaused, now, lastResetTime, lastInfoTime, cellSize,
                   hue, canvasW, canvasH, width, height, bufs, framebuffers, uniforms,
                   presented, resetSeen, overlay>>

\* render() otherwise: triggers, simulation step, render step, swap, and
\* requestAnimationFrame(this.render)
TickRun ==
    /\ pending > 0
    /\ ~(PauseChecked /\ isPaused)
    /\ backend = "gol" => hue < MaxHueSteps
    /\ hist # NoHist => hist.n < MaxGen
    /\ pending' = (pending - 1) + 1
    /\ IF ResetDue(This)
       THEN /\ \E r \in draws.rands, seed \in draws.seeds, hueDraw \in draws.hues :
                 Install(render(backend, This, r, seed, hueDraw))
            /\ resetSeen' = TRUE
       ELSE /\ Install(render(backend, This, 0, 0, 0))
            /\ UNCHANGED resetSeen
    /\ hist' = IF hist = NoHist \/ ResetDue(This) THEN NoHist
               ELSE [hist EXCEPT !.n = @ + 1]
    /\ UNCHANGED <<backend, draws, isPaused, now, pausedTickAt>>

\* variant of the wheel handler: no Math.min with the default size
WheelNoUpperClamp ==
    /\ backend \in {"gpu", "gl"}
    /\ \E delta \in {0 - 1, 0, 1} :
         LET sum == cellSize + delta
             newCellSize == IF sum > 1 THEN sum ELSE 1
         IN  IF newCellSize # cellSize /\ newCellSize <= 9
             THEN \E seed \in draws.seeds, hueDraw \in draws.hues :
                    Install(resize(backend, [This EXCEPT !.cellSize = newCellSize],
                                   canvasW, canvasH, seed, hueDraw))
             ELSE Install(This)
    /\ UNCHANGED <<backend, draws, hist, isPaused, now, pending, pausedTickAt, resetSeen>>

\* Math.max(1, Math.min(size, this.defaultCellSize))
ClampCellSize(size) ==
    LET clamped == IF size < defaultCellSize THEN size ELSE defaultCellSize
    IN  IF clamped > 1 THEN clamped ELSE 1

\* variant: while paused the handler sets the cell size and puts resize() off
WheelStepNotInPause(delta) ==
    /\ backend \in {"gpu", "gl"}
    /\ LET newCellSize == ClampCellSize(cellSize + delta)
       IN  IF newCellSize # cellSize /\ ~isPaused
           THEN \E seed \in draws.seeds, hueDraw \in draws.hues :
                  Install(resize(backend, [This EXCEPT !.cellSize = newCellSize],
                                 canvasW, canvasH, seed, hueDraw))
           ELSE Install([This EXCEPT !.cellSize = newCellSize])
    /\ UNCHANGED <<backend, draws, hist, isPaused, now, pending, pausedTickAt, resetSeen>>

\* the wheel handler of part_000 and gol-webgl.js for delta = Math.sign(deltaY)
WheelStep(delta) ==
    /\ backend \in {"gpu", "gl"}
    /\ LET newCellSize == ClampCellSize(cellSize + delta)
       IN  IF newCellSize # cellSize
           THEN \E seed \in draws.seeds, hueDraw \in draws.hues :
                  Install(resize(backend, [This EXCEPT !.cellSize = newCellSize],
                                 canvasW, canvasH, seed, hueDraw))
           ELSE Install(This)
    /\ UNCHANGED <<backend, draws, hist, isPaused, now, pending, pausedTickAt, resetSeen>>

\* a wheel event: deltaY is negative, zero or positive
Wheel ==
    \E delta \in {0 - 1, 0, 1} : WheelStep(delta)

\* variant: resuming restarts both periods
ClickRestartsPeriods ==
    /\ backend \in {"gpu", "gl"}
    /\ isPaused' = ~isPaused
    /\ pausedTickAt' = NoTime
    /\ lastResetTime' = IF isPaused THEN now ELSE lastResetTime
    /\ lastInfoTime' = IF isPaused THEN now ELSE lastInfoTime
    /\ UNCHANGED <<backend, draws, hist, now, cellSize, hue,
                   canvasW, canvasH, width, height, bufs, framebuffers, uniforms, pending,
                   presented, resetSeen, overlay>>

\* the click handler of part_000 and gol-webgl.js
Click ==
    /\ backend \in {"gpu", "gl"}
    /\ isPaused' = ~isPaused
    /\ pausedTickAt' = NoTime
    /\ UNCHANGED <<backend, draws, hist, now, lastResetTime, lastInfoTime, cellSize, hue,
                   canvasW, canvasH, width, height, bufs, framebuffers, uniforms, pending,
                   presented, resetSeen, overlay>>

\* the keypress handler of part_002: space pauses, r resets
KeyPress ==
    /\ backend = "gl2"
    /\ \/ /\ isPaused' = ~isPaused
          /\ pausedTickAt' = NoTime
          /\ Install(This)
       \/ /\ \E seed \in draws.seeds : Install(reset(backend, This, seed, 0))
          /\ UNCHANGED <<isPaused, pausedTickAt>>
    /\ UNCHANGED <<backend, draws, hist, now, pending, resetSeen>>

\* the window's resize event: the window has the new size (W, H)
WindowResize ==
    /\ \E win \in Windows, seed \in draws.seeds, hueDraw \in draws.hues :
         Install(resize(backend, This, win[1], win[2], seed, hueDraw))
    /\ UNCHANGED <<backend, draws, hist, isPaused, now, pending, pausedTickAt, resetSeen>>

\* wall-clock time passes
AdvanceTime ==
    /\ \E k \in 0 .. MaxInstant - 1 :
         /\ now = Instant(k)
         /\ now' = Instant(k + 1)
    /\ UNCHANGED <<backend, draws, hist, isPaused, lastResetTime, lastInfoTime, cellSize, hue,
                   canvasW, canvasH, width, height, bufs, framebuffers, uniforms, pending,
                   presented, pausedTickAt, resetSeen, overlay>>

Next ==
    \/ TickPaused
    \/ TickRun
    \/ Wheel
    \/ Click
    \/ KeyPress
    \/ WindowResize
    \/ AdvanceTime

Spec == Init /\ [][Next]_vars

\* every program with both hue draws; one seed and one cell-size draw
InitHue ==
    \E be \in Backends :
        Start(be, [hues |-> Hues, seeds |-> {1}, rands |-> {0}])

SpecHue == InitHue /\ [][Next]_vars

----------------------------------------------------------------------------
(* Faults.  No handler of the programs catches an exception (the only try  *)
(* is around createBuffers() and the first render() in init() of part_002) *)
(* and none checks the result of an allocation.  A statement that throws   *)
(* ends its callback there: what the callback assigned before stays, what  *)
(* follows does not run.  An allocation that fails either throws or hands  *)
(* back a buffer without storage, which reads as 0 and drops every write.  *)

\* render() up to its simulation step: the triggers have run
BeforeFrame(be, t, r, seed, hueDraw) ==
    IF be = "gl"
    THEN ResetTrigger(be, InfoTrigger(t), r, seed, hueDraw)
    ELSE InfoTrigger(UpdateHue(be, ResetTrigger(be, t, r, seed, hueDraw)))

\* render() throws in its simulation or render step: the swap and
\* requestAnimationFrame(this.render) are not reached
TickThrows ==
    /\ pending > 0
    /\ ~(PauseChecked /\ isPaused)
    /\ backend = "gol" => hue < MaxHueSteps
    /\ pending' = pending - 1
    /\ IF ResetDue(This)
       THEN /\ \E r \in draws.rands, seed \in draws.seeds, hueDraw \in draws.hues :
                 Install(BeforeFrame(backend, This, r, seed, hueDraw))
            /\ resetSeen' = TRUE
       ELSE /\ Install(BeforeFrame(backend, This, 0, 0, 0))
            /\ UNCHANGED resetSeen
    /\ UNCHANGED <<backend, draws, hist, isPaused, now, pausedTickAt>>

\* resize() when the allocation throws: the canvas size and the grid
\* dimensions are assigned, the pair and the uniforms are the old ones
AllocThrows(t, W, H) ==
    [t EXCEPT !.canvasW = W, !.canvasH = H,
              !.width = W \div t.cellSize,
              !.height = H \div t.cellSize]

\* resize() when the allocation hands back buffers without storage
AllocInvalid(be, t, W, H, seed, hueDraw) ==
    LET t1 == resize(be, t, W, H, seed, hueDraw)
    IN  [t1 EXCEPT !.bufs = Pair([@[0] EXCEPT !.cells = << >>],
                                 [@[1] EXCEPT !.cells = << >>])]

\* the outcomes of resize() with a failing allocation; resize() of part_002
\* allocates nothing, and an allocation of no cells does not fail
FailedResize(be, t, W, H, seed, hueDraw) ==
    IF be = "gl2" \/ (W \div t.cellSize) * (H \div t.cellSize) = 0 THEN {}
    ELSE {AllocThrows(t, W, H), AllocInvalid(be, t, W, H, seed, hueDraw)}

\* the pair installed has the storage the grid dimensions ask for
PairIntact ==
    \A i \in {0, 1} : Len(bufs[i].cells) = width * height

\* a zoom step whose reallocation fails (the pair was intact until then)
WheelFails ==
    /\ backend \in {"gpu", "gl"}
    /\ PairIntact /\ pending > 0
    /\ \E delta \in {0 - 1, 1} :
         LET sum == cellSize + delta
             clamped == IF sum < defaultCellSize THEN sum ELSE defaultCellSize
             newCellSize == IF clamped > 1 THEN clamped ELSE 1
         IN  /\ newCellSize # cellSize
             /\ \E seed \in draws.seeds, hueDraw \in draws.hues :
                  \E t \in FailedResize(backend, [This EXCEPT !.cellSize = newCellSize],
                                         canvasW, canvasH, seed, hueDraw) :
                    Install(t)
    /\ UNCHANGED <<backend, draws, hist, isPaused, now, pending, pausedTickAt, resetSeen>>

\* a window resize whose reallocation fails (the pair was intact until then)
WindowResizeFails ==
    /\ PairIntact /\ pending > 0
    /\ \E win \in Windows, seed \in draws.seeds, hueDraw \in draws.hues :
         \E t \in FailedResize(backend, This, win[1], win[2], seed, hueDraw) :
           Install(t)
    /\ UNCHANGED <<backend, draws, hist, isPaused, now, pending, pausedTickAt, resetSeen>>

\* every program, with one seed and one cell-size draw
InitFault ==
    \E be \in Backends :
        Start(be, [hues |-> {MidHue}, seeds |-> {1}, rands |-> {0}])

NextFault ==
    \/ Next
    \/ TickThrows
    \/ WheelFails
    \/ WindowResizeFails

SpecFault == InitFault /\ [][NextFault]_vars

----------------------------------------------------------------------------
(* The hide timers of the overlay.  The callback of setTimeout runs when   *)
(* its delay has passed, as a task of its own between the frame callbacks  *)
(* and the event handlers, in either order with a frame callback that is   *)
(* ready at the same time.  The timers act on the overlay alone; they are  *)
(* followed in runs of their own, in which the clock moves by one info     *)
(* period and 1 ms at a time: the first instant at which the info trigger  *)
(* is due again.                                                           *)

\* a timer callback runs at most this many ms after it came due
TimerLatency == 1

\* () => { overlay.style.display = 'none'; } of a timer that has come due
HideTimer ==
    /\ \E due \in overlay.timers :
         /\ due <= now
         /\ overlay' = [overlay EXCEPT !.shown = FALSE, !.timers = @ \ {due}]
    /\ UNCHANGED <<backend, draws, hist, isPaused, now, lastResetTime, lastInfoTime,
                   cellSize, hue, canvasW, canvasH, width, height, bufs, framebuffers, uniforms,
                   pending, presented, pausedTickAt, resetSeen>>

\* wall-clock time passes: DEBUG_INTERVAL + 1 ms, no timer being left
\* pending for more than TimerLatency
ShortWait ==
    /\ now < StartTime + (MaxWaits * (DEBUG_INTERVAL + 1))
    /\ now' = now + DEBUG_INTERVAL + 1
    /\ \A due \in overlay.timers : now' <= due + TimerLatency
    /\ UNCHANGED <<backend, draws, hist, isPaused, lastResetTime, lastInfoTime, cellSize, hue,
                   canvasW, canvasH, width, height, bufs, framebuffers, uniforms, pending,
                   presented, pausedTickAt, resetSeen, overlay>>

\* every program, with one seed and one cell-size draw
InitOverlay ==
    \E be \in Backends :
        Start(be, [hues |-> {MidHue}, seeds |-> {1}, rands |-> {0}])

NextOverlay ==
    \/ TickPaused
    \/ TickRun
    \/ Wheel
    \/ Click
    \/ KeyPress
    \/ WindowResize
    \/ HideTimer
    \/ ShortWait

SpecOverlay == InitOverlay /\ [][NextOverlay]_vars

----------------------------------------------------------------------------
(* Long pauses.  The clock of these runs also moves by LongPause at once,  *)
(* while the simulation is paused and a paused frame has run.              *)

\* a pause of three reset periods, in ms
LongPause == 3 * RESET_INTERVAL

\* wall-clock time passes while the simulation is paused
PausedWait ==
    /\ PauseChecked /\ isPaused /\ pausedTickAt = now
    /\ now <= Instant(MaxInstant)
    /\ now' = now + LongPause
    /\ UNCHANGED <<backend, draws, hist, isPaused, lastResetTime, lastInfoTime, cellSize, hue,
                   canvasW, canvasH, width, height, bufs, framebuffers, uniforms, pending,
                   presented, pausedTickAt, resetSeen, overlay>>

\* every program, with one seed and one cell-size draw
InitPause ==
    \E be \in Backends :
        Start(be, [hues |-> {MidHue}, seeds |-> {1}, rands |-> {0}])

NextPause ==
    \/ Next
    \/ PausedWait

SpecPause == InitPause /\ [][NextPause]_vars

----------------------------------------------------------------------------
(* The update rule on every small grid: each program starts on a grid of   *)
(* w x h cells (a window of 4w x 4h pixels at the default cell size) with  *)
(* arbitrary contents, as a reseed can draw them, and runs frames.         *)

Grids(w, h) == [1 .. w * h -> {0, 1}]

\* the record of init() with the random state replaced by cells
WithState(be, t, cells) ==
    [t EXCEPT !.bufs = IF be = "gl"
                       THEN Pair([@[0] EXCEPT !.cells = cells],
                                 [@[1] EXCEPT !.cells = cells])
                       ELSE Pair([@[0] EXCEPT !.cells = cells], @[1])]

InitRule ==
    \E be \in Backends, w \in 1 .. MaxCells, h \in 1 .. MaxCells :
      \E cells \in IF w * h <= MaxCells THEN Grids(w, h) ELSE {} :
        LET t == WithState(be, init(be, 4 * w, 4 * h, 0, MidHue, MidHue, MidHue), cells)
        IN  /\ backend = be
            /\ draws = [hues |-> {MidHue}, seeds |-> {}, rands |-> {}]
            /\ isPaused = FALSE
            /\ now = StartTime
            /\ pending = 1
            /\ pausedTickAt = NoTime
            /\ resetSeen = FALSE
            /\ hist = NoHist
            /\ cellSize = t.cellSize
            /\ hue = t.hue
            /\ canvasW = t.canvasW
            /\ canvasH = t.canvasH
            /\ width = t.width
            /\ height = t.height
            /\ bufs = t.bufs
            /\ framebuffers = t.framebuffers
            /\ uniforms = t.uniforms
            /\ lastResetTime = t.lastResetTime
            /\ lastInfoTime = t.lastInfoTime
            /\ presented = t.presented
            /\ overlay = t.overlay

SpecRule == InitRule /\ [][TickRun]_vars

----------------------------------------------------------------------------
(* Tracked runs: the program starts from a given grid and computes up to   *)
(* MaxGen frames; hist records the grid and counts the frames.             *)

\* the state after init() of program be on a w x h grid holding cells; the
\* run is tracked from there if tracked is TRUE
Loaded(be, w, h, cells, tracked) ==
    LET t == WithState(be, init(be, 4 * w, 4 * h, 0, MidHue, MidHue, MidHue), cells)
    IN  /\ backend = be
        /\ draws = [hues |-> {MidHue}, seeds |-> {}, rands |-> {}]
        /\ isPaused = FALSE
        /\ now = StartTime
        /\ pending = 1
        /\ pausedTickAt = NoTime
        /\ resetSeen = FALSE
        /\ hist = IF tracked THEN [start |-> cells, n |-> 0] ELSE NoHist
        /\ cellSize = t.cellSize
        /\ hue = t.hue
        /\ canvasW = t.canvasW
        /\ canvasH = t.canvasH
        /\ width = t.width
        /\ height = t.height
        /\ bufs = t.bufs
        /\ framebuffers = t.framebuffers
        /\ uniforms = t.uniforms
        /\ lastResetTime = t.lastResetTime
        /\ lastInfoTime = t.lastInfoTime
        /\ presented = t.presented
        /\ overlay = t.overlay

\* side lengths of the grids of the tracked runs
RunSides == {2, 3}

\* the five cells of a glider, as offsets from its corner:
\*     . O .
\*     . . O
\*     O O O
GliderCells == {<<1, 0>>, <<2, 1>>, <<0, 2>>, <<1, 2>>, <<2, 2>>}

\* the w x h grid whose live cells are the glider with its corner at (px, py),
\* wrapped around the edges
GliderGrid(w, h, px, py) ==
    [i \in 1 .. w * h |->
        IF \E c \in GliderCells :
             /\ (i - 1) % w = (px + c[1]) % w
             /\ (i - 1) \div w = (py + c[2]) % h
        THEN 1 ELSE 0]

\* the w x h grid whose live cells are the 2 x 2 block with its corner at
\* (px, py), wrapped around the edges
BlockGrid(w, h, px, py) ==
    [i \in 1 .. w * h |->
        IF /\ (i - 1) % w \in {px % w, (px + 1) % w}
           /\ (i - 1) \div w \in {py % h, (py + 1) % h}
        THEN 1 ELSE 0]

\* side lengths of the grids that start with a block
BlockSides == {2, 3, 4, 5}

\* every program, every grid with sides in RunSides, a glider at every
\* position of a GliderSide x GliderSide grid, and a block at every position
\* of every grid with sides in BlockSides
InitRun ==
    \/ \E be \in Backends, w \in BlockSides, h \in BlockSides :
         \E px \in 0 .. w - 1, py \in 0 .. h - 1 :
           Loaded(be, w, h, BlockGrid(w, h, px, py), TRUE)
    \/ \E be \in Backends, w \in RunSides, h \in RunSides :
         \E cells \in Grids(w, h) : Loaded(be, w, h, cells, TRUE)
    \/ \E be \in Backends, px \in 0 .. GliderSide - 1, py \in 0 .. GliderSide - 1 :
         Loaded(be, GliderSide, GliderSide,
                GliderGrid(GliderSide, GliderSide, px, py), TRUE)

SpecRun == InitRun /\ [][TickRun]_vars

\* <<width, height>> of the grids on which a compute pass is taken apart:
\* one workgroup of 8 x 8 invocations, and two workgroups side by side
PassSizes == {<<2, 2>>, <<3, 2>>, <<WORKGROUP_SIZE + 1, 1>>}

\* the WebGPU programs on every grid of these sizes
InitPass ==
    \E be \in GPU, size \in PassSizes :
      \E cells \in Grids(size[1], size[2]) :
        Loaded(be, size[1], size[2], cells, FALSE)

SpecPass == InitPass /\ [][TickRun]_vars

----------------------------------------------------------------------------
(* The rule of Life as the specification states it.                        *)

NeighbourOffsets == {d \in {-1, 0, 1} \X {-1, 0, 1} : d # <<0, 0>>}

RECURSIVE SumOf(_, _)
SumOf(f, S) ==
    IF S = {} THEN 0
    ELSE LET e == CHOOSE e \in S : TRUE IN f[e] + SumOf(f, S \ {e})

CellAt(cells, w, x, y) == cells[(y * w) + x + 1]

\* N: the sum of the buffer over the eight toroidal neighbours of (x, y)
ToroidalN(cells, w, h, x, y) ==
    SumOf([d \in NeighbourOffsets |->
              CellAt(cells, w, (x + d[1] + w) % w, (y + d[2] + h) % h)],
          NeighbourOffsets)

LifeRule(alive, N) ==
    IF (alive = 1 /\ (N = 2 \/ N = 3)) \/ (alive = 0 /\ N = 3) THEN 1 ELSE 0

\* the successor grid
LifeStep(cells, w, h) ==
    [i \in 1 .. w * h |->
        LifeRule(cells[i], ToroidalN(cells, w, h, (i - 1) % w, (i - 1) \div w))]

\* the neighbour sum each program computes for cell (x, y) of its read buffer
NeighbourSum(x, y) ==
    IF backend \in GPU THEN neighborsGPU(bufs[0].cells, width, height, x, y)
    ELSE IF backend = "gl" THEN neighborsGL(bufs[0], width, height, x, y)
    ELSE neighborsGL2(bufs[0], width, height, x, y)

----------------------------------------------------------------------------
(* C1: one update step writes into the next buffer, for every cell (x, y)  *)
(* of every grid, 1 exactly when the cell is alive with N in {2, 3} or     *)
(* dead with N = 3, and 0 otherwise, N being the sum of the current buffer *)
(* over the eight offsets read at ((x+dx+width) mod width,                 *)
(* (y+dy+height) mod height).  After the swap the buffer written is        *)
(* bufs[0].  Checked under SpecRule, where every step is a frame.          *)
C1_UpdateRule ==
    [][ /\ Len(bufs'[0].cells) = width * height
        /\ \A x \in 0 .. width - 1, y \in 0 .. height - 1 :
             CellAt(bufs'[0].cells, width, x, y)
               = LifeRule(CellAt(bufs[0].cells, width, x, y),
                          ToroidalN(bufs[0].cells, width, height, x, y)) ]_vars

\* a frame on a grid at least 3 wide has produced a birth, a survival and a death
C1_Witness ==
    /\ width >= 3 /\ height >= 2
    /\ presented = bufs[0].id
    /\ backend \in GPU
    /\ \E i \in 1 .. width * height : bufs[1].cells[i] = 0 /\ bufs[0].cells[i] = 1
    /\ \E i \in 1 .. width * height : bufs[1].cells[i] = 1 /\ bufs[0].cells[i] = 1
    /\ \E i \in 1 .. width * height : bufs[1].cells[i] = 1 /\ bufs[0].cells[i] = 0

(* C2: toroidal wraparound.  On every grid the neighbour count of cell     *)
(* (0,0) includes the state of cell (width-1, height-1) and the count of   *)
(* (width-1, height-1) includes the state of (0,0); every cell of column 0 *)
(* counts the cell of column width-1 in its row, and every cell of row 0   *)
(* the cell of row height-1 in its column.                                 *)
C2_Wraparound ==
    (width >= 1 /\ height >= 1 /\ Len(bufs[0].cells) = width * height) =>
      /\ NeighbourSum(0, 0) >= CellAt(bufs[0].cells, width, width - 1, height - 1)
      /\ NeighbourSum(width - 1, height - 1) >= CellAt(bufs[0].cells, width, 0, 0)
      /\ \A y \in 0 .. height - 1 :
           NeighbourSum(0, y) >= CellAt(bufs[0].cells, width, width - 1, y)
      /\ \A x \in 0 .. width - 1 :
           NeighbourSum(x, 0) >= CellAt(bufs[0].cells, width, x, height - 1)

\* a frame on a 4 x 2 grid whose live cells were (3,0) and (3,1): cell (0,0)
\* saw them across the edge, three times in all, and was born
C2_Witness ==
    /\ width = 4 /\ height = 2
    /\ backend = "gpu"
    /\ presented = bufs[0].id
    /\ bufs[1].cells = <<0, 0, 0, 1, 0, 0, 0, 1>>
    /\ CellAt(bufs[0].cells, width, 0, 0) = 1

----------------------------------------------------------------------------
(* Steps, as the formulas below recognise them.                            *)

\* the first render() call of the current instant that finds isPaused true
PausedTickStep ==
    PauseChecked /\ isPaused /\ isPaused' /\ pausedTickAt' = now /\ pausedTickAt # now

\* the reset trigger fires in this step
ResetFires == lastResetTime' # lastResetTime

\* neither buffer of the new pair is a buffer of the old pair
Reallocated ==
    {bufs'[0].id, bufs'[1].id} \cap {bufs[0].id, bufs[1].id} = {}

\* both buffers of the new pair have the new dimensions
NewPairFits ==
    \A i \in {0, 1} :
        /\ bufs'[i].w = width'
        /\ bufs'[i].h = height'
        /\ Len(bufs'[i].cells) = width' * height'

C4_PausedTickIsIdle ==
    [][ (PauseChecked /\ isPaused) =>
          /\ pending' >= 1
          /\ PausedTickStep =>
               /\ bufs' = bufs
               /\ presented' = presented
               /\ uniforms' = uniforms
               /\ pending' = pending
          /\ isPaused' # isPaused => bufs' = bufs
          /\ (backend \in {"gpu", "gl"} /\ bufs' # bufs) => Reallocated ]_vars

\* a paused frame has run on a grid with live cells that had been presented
C4_Witness ==
    /\ backend \in {"gpu", "gl"}
    /\ isPaused /\ pausedTickAt = now
    /\ presented # NoBuf
    /\ \E i \in 1 .. Len(bufs[0].cells) : bufs[0].cells[i] = 1

(* C5 as stated: in every reachable state                                  *)
(* minCellSize <= cellSizePixels <= defaultCellSize.                       *)
C5_WithinDefault ==
    minCellSize <= cellSize /\ cellSize <= defaultCellSize

(* C5, amended: in every reachable state 1 <= cellSizePixels <= 9, and it  *)
(* exceeds defaultCellSize only after the reset trigger has fired.         *)
C5_WithinNine ==
    /\ minCellSize <= cellSize /\ cellSize <= 9
    /\ cellSize > defaultCellSize => resetSeen

\* the reset trigger has drawn the largest size
C5_Witness ==
    cellSize = 9 /\ resetSeen /\ backend \in {"gpu", "gl"}

(* C6: starting from defaultCellSize, as long as no reset trigger has      *)
(* fired, zoom steps keep 1 <= cellSizePixels <= defaultCellSize.          *)
C6_ZoomClamp ==
    ~resetSeen => (minCellSize <= cellSize /\ cellSize <= defaultCellSize)

\* zoomed all the way in, without any reset
C6_Witness ==
    ~resetSeen /\ cellSize = minCellSize /\ backend \in {"gpu", "gl"}

(* C7 as stated: in every reachable state a zoom step (a change of         *)
(* cellSizePixels that is not the reset trigger's) changes it by exactly   *)
(* +1 or -1.                                                               *)
C7_ZoomStepIsOne ==
    [][ (cellSize' # cellSize /\ ~ResetFires) =>
          (cellSize' = cellSize + 1 \/ cellSize' = cellSize - 1) ]_vars

C9_ReallocOnResize ==
    [][ (/\ backend \in {"gol", "gpu", "gl"}
         /\ (canvasW' # canvasW \/ canvasH' # canvasH \/ cellSize' # cellSize)) =>
          /\ Reallocated
          /\ NewPairFits
          /\ width' = canvasW' \div cellSize'
          /\ height' = canvasH' \div cellSize'
          /\ \E seed \in Seeds :
               LET state == SeedCells(seed, width' * height')
               IN  IF ResetFires
                   THEN /\ bufs'[1].cells = state
                        /\ bufs'[0].cells = LifeStep(state, width', height')
                   ELSE /\ bufs'[0].cells = state
                        /\ bufs'[1].cells
                             = IF backend = "gl" THEN state
                               ELSE Zeros(width' * height') ]_vars

\* after a zoom to cell size 2 (no reset) the pair in use is a new one, seeded
C9_Witness ==
    /\ backend = "gl"
    /\ ~resetSeen /\ cellSize = 2
    /\ bufs[0].id \in {2, 3}
    /\ \E i \in 1 .. Len(bufs[0].cells) : bufs[0].cells[i] = 1

(* C10 as stated: whenever a tick can start, in every program, both        *)
(* buffers hold exactly width * height cells for the current width and     *)
(* height, and the dimensions handed to the update step are those of the   *)
(* buffers.                                                                *)
C10_DimensionsMatch ==
    /\ \A i \in {0, 1} :
         /\ bufs[i].w = width
         /\ bufs[i].h = height
         /\ Len(bufs[i].cells) = width * height
    /\ backend \in GPU => (uniforms.width = width /\ uniforms.height = height)

(* C11: in every reachable state width = floor(pixelWidth / cellSizePixels) *)
(* and height = floor(pixelHeight / cellSizePixels) for the current canvas *)
(* size and the current cell size, after any sequence of window resizes,   *)
(* zoom steps and reset-trigger firings.                                   *)
C11_GridDimensions ==
    /\ width = canvasW \div cellSize
    /\ height = canvasH \div cellSize

\* zoomed to cell size 3 on a canvas 4 pixels wide: the division rounds down
C11_Witness ==
    /\ backend \in {"gpu", "gl"}
    /\ cellSize = 3 /\ canvasW = 4 /\ width = 1
    /\ bufs[0].w = 1

(* C12 as stated: in every reachable state width >= 1 and height >= 1; a   *)
(* display smaller than one cell gives a dimension clamped to 1, never 0,  *)
(* and no buffer is allocated empty.                                       *)
C12_DimensionsPositive ==
    /\ width >= 1 /\ height >= 1
    /\ \A i \in {0, 1} : Len(bufs[i].cells) >= 1

(* C13: the two buffers of the pair are distinct objects in every          *)
(* reachable state; a tick reads one (bufs[0]) and writes the other, and   *)
(* the swap at its end exchanges the two roles without copying or changing *)
(* the contents of either: the buffer read is afterwards in the write      *)
(* position exactly as it was, the buffer written is in the read position. *)
C13_DistinctAndSwapped ==
    [][ /\ bufs[0].id # bufs[1].id
        /\ bufs'[0].id # bufs'[1].id
        /\ (TickRun /\ ~ResetFires) =>
             /\ bufs'[1] = bufs[0]
             /\ bufs'[0].id = bufs[1].id
             /\ presented' = bufs[1].id ]_vars

\* after an odd number of frames on the initial pair of part_000: the roles
\* are exchanged and the two buffers hold different generations
C13_Witness ==
    /\ backend = "gpu"
    /\ bufs[0].id \in {1, 3}
    /\ presented = bufs[0].id
    /\ bufs[0].cells # bufs[1].cells
    /\ \E i \in 1 .. Len(bufs[1].cells) : bufs[1].cells[i] = 1

\* the n-fold application of the reference rule
RECURSIVE Generation(_, _, _, _)
Generation(cells, w, h, n) ==
    IF n = 0 THEN cells
    ELSE LET previous == Generation(cells, w, h, n - 1)
         IN  LifeStep(previous, w, h)

(* C14: the swap happens once per unpaused tick, after its update and      *)
(* render steps: after n consecutive unpaused ticks with no reseed the     *)
(* current buffer (read by the next tick) is the one the last tick wrote   *)
(* and presented, it holds the n-fold application of the update rule to    *)
(* the starting state, and the other buffer holds generation n - 1 whole:  *)
(* no buffer mixes two generations.                                        *)
C14_SwapOncePerTick ==
    hist # NoHist =>
      /\ bufs[0].id = hist.n % 2
      /\ bufs[1].id = (hist.n + 1) % 2
      /\ hist.n = 0 => bufs[0].cells = hist.start
      /\ hist.n >= 1 =>
           LET previous == Generation(hist.start, width, height, hist.n - 1)
           IN  /\ presented = bufs[0].id
               /\ bufs[1].cells = previous
               /\ bufs[0].cells = LifeStep(previous, width, height)

\* three frames of gol-webgl.js on a pattern that is still changing
C14_Witness ==
    /\ backend = "gl"
    /\ hist # NoHist /\ hist.n = 3
    /\ bufs[0].cells # bufs[1].cells
    /\ bufs[0].cells # hist.start
    /\ \E i \in 1 .. Len(bufs[0].cells) : bufs[0].cells[i] = 1

\* the indices at which two buffers of the same length differ
Differences(a, b) == {i \in 1 .. Len(a) : a[i] # b[i]}

\* the dispatch of this tick, taken apart into its invocations.  onZeros[d]
\* and onOnes[d] are the next buffer after invocation d alone, started on the
\* all-zero and on the all-one buffer; the indices d writes are those it
\* changes in one of the two.
PassIsDataParallel ==
    LET input == bufs[0].cells
        output == bufs[1].cells
        uw == uniforms.width
        uh == uniforms.height
        D == Dispatch(width, height)
        zeros == [i \in 1 .. Len(bufs[1].cells) |-> 0]
        ones == [i \in 1 .. Len(bufs[1].cells) |-> 1]
        onZeros == [d \in D |-> Invoke(input, zeros, uw, uh, d[1], d[2])]
        onOnes == [d \in D |-> Invoke(input, ones, uw, uh, d[1], d[2])]
        alone == [d \in D |-> Invoke(input, output, uw, uh, d[1], d[2])]
        writes == [d \in D |-> Differences(onZeros[d], zeros)
                                 \cup Differences(onOnes[d], ones)]
        inRange == {d \in D : d[1] < width /\ d[2] < height}
    IN  /\ \A i \in 1 .. width * height :
             Cardinality({d \in D : i \in writes[d]}) = 1
        /\ \A d \in D \ inRange : writes[d] = {}
        /\ \A d \in D : \A i \in writes[d] : onZeros[d][i] = onOnes[d][i]
        /\ \A a \in inRange, b \in inRange :
             (a[1] + (uw * a[2]) < b[1] + (uw * b[2])) =>
               Invoke(input, alone[b], uw, uh, a[1], a[2])
                 = Invoke(input, alone[a], uw, uh, b[1], b[2])
        /\ \A d \in D : \A i \in writes[d] : bufs'[0].cells[i] = alone[d][i]
        /\ bufs'[1].cells = input

(* C15: within one update step of the WebGPU programs every cell index of  *)
(* the next buffer is written by exactly one invocation, the invocations   *)
(* with x >= width or y >= height write nothing, what an invocation writes *)
(* does not depend on the contents of the next buffer, any two invocations *)
(* commute, and the buffer the tick produces holds in every cell the value *)
(* its one writer stored, whatever the order of the invocations; the       *)
(* current buffer is left as it was.                                       *)
C15_DataParallel ==
    [][ (backend \in GPU) => PassIsDataParallel ]_vars

\* a frame of part_000 on a 9 x 1 grid: two workgroups, 128 invocations, nine
\* of them write
C15_Witness ==
    /\ backend = "gpu"
    /\ width = WORKGROUP_SIZE + 1 /\ height = 1
    /\ presented = bufs[0].id
    /\ bufs[0].cells # bufs[1].cells
    /\ \E i \in 1 .. width : bufs[0].cells[i] = 1

(* C16: the update step of the WebGPU programs is a function of (current   *)
(* buffer, width, height) alone: in every unpaused tick, whatever the hue, *)
(* the cell size, the timestamps and the previous contents of the next     *)
(* buffer are, the buffer written is the successor of the current buffer,  *)
(* and it is what the pass writes over an all-zero next buffer.  (A tick   *)
(* in which the reset trigger fires reseeds first; see C8.)                *)
C16_PureUpdate ==
    [][ (backend \in GPU /\ ~ResetFires /\ TickRun) =>
          /\ bufs'[0].cells = LifeStep(bufs[0].cells, width, height)
          /\ bufs'[0].cells
               = ComputePass(bufs[0].cells, Zeros(Len(bufs[1].cells)),
                             uniforms.width, uniforms.height, width, height) ]_vars

\* part_000 zoomed to cell size 2 at a later instant, after two frames on
\* the current pair: the last frame was written over an older generation
\* that had live cells
C16_Witness ==
    /\ backend = "gpu"
    /\ cellSize = 2 /\ now > StartTime /\ lastInfoTime > 0
    /\ bufs[0].id \in {0, 2} /\ presented = bufs[0].id
    /\ bufs[0].cells = LifeStep(bufs[1].cells, width, height)
    /\ \E i \in 1 .. Len(bufs[1].cells) : bufs[1].cells[i] = 1

\* the live cells of the buffer are a 2 x 2 block at some position
IsBlock(cells, w, h) ==
    \E px \in 0 .. w - 1, py \in 0 .. h - 1 : cells = BlockGrid(w, h, px, py)

\* the frame computed from a block leaves the block as it is
BlockStaysFrom(side) ==
    (/\ width >= side /\ height >= side
     /\ IsBlock(bufs[0].cells, width, height)) => bufs'[0].cells = bufs[0].cells

\* C17 as stated: on every grid with width >= 2 and height >= 2 whose only
\* live cells form a 2 x 2 block, at any position, the update step yields
\* the same grid
C17_BlockIsStillFromTwo ==
    [][ BlockStaysFrom(2) ]_vars

(* C17, amended: on every grid with width >= 3 and height >= 3 whose only   *)
(* live cells form a 2 x 2 block, at any position including those that     *)
(* straddle the wrap edge, the update step of every program yields the     *)
(* same grid.                                                              *)
C17_BlockIsStill ==
    [][ BlockStaysFrom(3) ]_vars

\* part_000 has computed a frame from a block that straddles both wrap
\* edges of a 4 x 3 grid
C17_Witness ==
    /\ backend = "gpu"
    /\ width = 4 /\ height = 3
    /\ hist # NoHist /\ hist.n >= 1
    /\ hist.start = BlockGrid(4, 3, 3, 2)
    /\ bufs[0].cells = <<1, 0, 0, 1,
                         0, 0, 0, 0,
                         1, 0, 0, 1>>
    /\ presented = bufs[0].id

\* the positions at which the live cells of the buffer are a glider
GliderAt(cells, w, h) ==
    {p \in (0 .. w - 1) \X (0 .. h - 1) : cells = GliderGrid(w, h, p[1], p[2])}

(* C18: a glider placed anywhere on a GliderSide x GliderSide torus, all    *)
(* other cells dead, is after exactly 4 frames the same five-cell shape    *)
(* translated by (1, 1) modulo the grid dimensions, also when that carries *)
(* it across the wrap edge; after 1, 2 and 3 frames the live cells are not *)
(* a translate of the shape.                                               *)
C18_GliderPeriodFour ==
    (/\ hist # NoHist
     /\ width = GliderSide /\ height = GliderSide
     /\ GliderAt(hist.start, width, height) # {}) =>
       \A p \in GliderAt(hist.start, width, height) :
         /\ hist.n = 4 =>
              bufs[0].cells = GliderGrid(width, height, p[1] + 1, p[2] + 1)
         /\ hist.n \in 1 .. 3 => GliderAt(bufs[0].cells, width, height) = {}

\* part_000 after 4 frames from a glider lying across both wrap edges: it
\* has moved one cell further across them
C18_Witness ==
    /\ backend = "gpu"
    /\ width = GliderSide /\ height = GliderSide
    /\ hist # NoHist /\ hist.n = 4
    /\ hist.start = GliderGrid(GliderSide, GliderSide, GliderSide - 2, GliderSide - 2)
    /\ bufs[0].cells = GliderGrid(GliderSide, GliderSide, GliderSide - 1, GliderSide - 1)
    /\ bufs[0].cells # hist.start
    /\ presented = bufs[0].id

AllDead(cells) == \A i \in 1 .. Len(cells) : cells[i] = 0

(* C19: on every grid size, a frame computed from an all-dead current      *)
(* buffer writes an all-dead buffer, which is the next current buffer, so  *)
(* the grid stays dead over any number of frames without a reseed; and in  *)
(* every frame a cell that was dead and is live had exactly three live     *)
(* neighbours.                                                             *)
C19_NoSpontaneousBirth ==
    [][ /\ AllDead(bufs[0].cells) => AllDead(bufs'[0].cells)
        /\ \A i \in 1 .. width * height :
             (bufs[0].cells[i] = 0 /\ bufs'[0].cells[i] = 1) =>
               ToroidalN(bufs[0].cells, width, height,
                         (i - 1) % width, (i - 1) \div width) = 3 ]_vars

\* part_000 has computed a frame from the all-dead 3 x 3 grid
C19_Witness ==
    /\ backend = "gpu"
    /\ width = 3 /\ height = 3
    /\ presented = bufs[0].id
    /\ AllDead(bufs[1].cells)
    /\ AllDead(bufs[0].cells)

\* the 3 x 3 grid whose only live cell is the centre (1, 1)
CentreOnly == <<0, 0, 0,
                0, 1, 0,
                0, 0, 0>>

(* C20: on the 3 x 3 grid whose only live cell is the centre (1, 1) the    *)
(* programs compute 0 live neighbours for the centre and fewer than 3 for  *)
(* every other cell, and the frame is the all-dead grid; on every grid, a  *)
(* live cell for which the program computes 0 live neighbours is dead in   *)
(* the next frame.                                                         *)
C20_IsolatedCellDies ==
    [][ /\ (width = 3 /\ height = 3 /\ bufs[0].cells = CentreOnly) =>
             /\ NeighbourSum(1, 1) = 0
             /\ \A x \in 0 .. 2, y \in 0 .. 2 : NeighbourSum(x, y) < 3
             /\ AllDead(bufs'[0].cells)
        /\ \A x \in 0 .. width - 1, y \in 0 .. height - 1 :
             (CellAt(bufs[0].cells, width, x, y) = 1 /\ NeighbourSum(x, y) = 0) =>
               CellAt(bufs'[0].cells, width, x, y) = 0 ]_vars

\* part_000 has computed the frame that follows the centre-only grid
C20_Witness ==
    /\ backend = "gpu"
    /\ width = 3 /\ height = 3
    /\ presented = bufs[0].id
    /\ bufs[1].cells = CentreOnly
    /\ AllDead(bufs[0].cells)

\* the info trigger fires in this step
InfoFires == lastInfoTime' # lastInfoTime

\* a trigger fires only in a frame that is not paused, only when more than
\* its period has passed since its timestamp, and sets the timestamp to now,
\* after which it is not due again at this instant
FiresOnlyWhenDue ==
    /\ ResetFires =>
         /\ ~(PauseChecked /\ isPaused)
         /\ now - lastResetTime > RESET_INTERVAL
         /\ lastResetTime' = now /\ now' = now
         /\ lastResetTime' - lastResetTime > RESET_INTERVAL
         /\ ~(now' - lastResetTime' > RESET_INTERVAL)
    /\ InfoFires =>
         /\ ~(PauseChecked /\ isPaused)
         /\ now - lastInfoTime > DEBUG_INTERVAL
         /\ lastInfoTime' = now /\ now' = now
         /\ lastInfoTime' - lastInfoTime > DEBUG_INTERVAL
         /\ ~(now' - lastInfoTime' > DEBUG_INTERVAL)

SameButInfoTime(t) ==
    /\ cellSize' = t.cellSize /\ hue' = t.hue
    /\ canvasW' = t.canvasW /\ canvasH' = t.canvasH
    /\ width' = t.width /\ height' = t.height
    /\ bufs' = t.bufs /\ uniforms' = t.uniforms
    /\ lastResetTime' = t.lastResetTime
    /\ presented' = t.presented

\* the frame as it runs when the info trigger is not due
WithoutInfo == [This EXCEPT !.lastInfoTime = now]

(* C22: the info trigger is purely observational and the triggers are      *)
(* independent.  A frame in which the info trigger fires leaves every      *)
(* field other than lastInfoTime (dimensions, both buffers, cellSize, hue, *)
(* lastResetTime) exactly as the same frame leaves it when the info        *)
(* trigger does not fire, and leaves isPaused unchanged; a frame in which  *)
(* the reset trigger fires leaves isPaused unchanged and changes           *)
(* lastInfoTime only if the info trigger fires in it too.                  *)
C22_InfoIsObservational ==
    [][ /\ InfoFires =>
             /\ isPaused' = isPaused
             /\ IF now - lastResetTime > RESET_INTERVAL
                THEN \E r \in draws.rands, seed \in draws.seeds, hueDraw \in draws.hues :
                       SameButInfoTime(render(backend, WithoutInfo, r, seed, hueDraw))
                ELSE /\ SameButInfoTime(render(backend, WithoutInfo, 0, 0, 0))
                     /\ lastResetTime' = lastResetTime
                     /\ cellSize' = cellSize
                     /\ width' = width /\ height' = height
                     /\ backend # "gol" => hue' = hue
        /\ ResetFires =>
             /\ isPaused' = isPaused
             /\ lastInfoTime' = IF now - lastInfoTime > DEBUG_INTERVAL
                                THEN now ELSE lastInfoTime ]_vars

\* part_000: the info trigger has fired in the frame 30 s after the start,
\* in which the reset trigger was not due, on a grid with live cells
C22_Witness ==
    /\ backend = "gpu"
    /\ now = Instant(1)
    /\ lastInfoTime = now
    /\ lastResetTime = StartTime
    /\ presented = bufs[0].id
    /\ \E i \in 1 .. Len(bufs[0].cells) : bufs[0].cells[i] = 1

(* C23: in part_000 and gol-webgl.js hue is changed only by the reset       *)
(* trigger: a zoom step, a window resize and a pause toggle leave hue      *)
(* unchanged, and a zoom step or window resize leaves isPaused,            *)
(* lastResetTime and lastInfoTime unchanged.                               *)
C23_HueOnlyByResetTrigger ==
    [][ (backend \in {"gpu", "gl"}) =>
          /\ hue' # hue => ResetFires
          /\ Click => hue' = hue
          /\ (Wheel \/ WindowResize) =>
               /\ hue' = hue
               /\ isPaused' = isPaused
               /\ lastResetTime' = lastResetTime
               /\ lastInfoTime' = lastInfoTime ]_vars

(* C24: in every frame rendered by part_000 and gol-webgl.js, also after a  *)
(* reallocation or a reset, the hue handed to the render shader is the     *)
(* current hue of the simulation, the one reset() chose last.              *)
C24_RendererUsesCurrentHue ==
    [][ (backend \in {"gpu", "gl"} /\ TickRun) => uniforms'.hue = hue' ]_vars

----------------------------------------------------------------------------
(* The frame on the screen.  Pixel (px, py) of the canvas, counted from the *)
(* corner where uv = (0, 0), has uv = ((2 px + 1) / (2 canvasW), ...).      *)

Pixels == (0 .. canvasW - 1) \X (0 .. canvasH - 1)

\* the cell the render pass looks up for the pixel
CellOfPixel(p) ==
    <<(((2 * p[1]) + 1) * width) \div (2 * canvasW),
      (((2 * p[2]) + 1) * height) \div (2 * canvasH)>>

\* the state the render pass of the last frame found for that cell in the
\* buffer the frame wrote (after the swap: bufs[0]); the shader of part_002
\* computes the successor of the cell once more
ShownCell(p) ==
    LET c == CellOfPixel(p)
        index == (c[2] * width) + c[1]
    IN  IF backend \in GPU
        THEN (IF index < Len(bufs[0].cells) THEN bufs[0].cells[index + 1] ELSE 0)
        ELSE IF backend = "gl"
        THEN Texel(bufs[0], (c[1] * bufs[0].w) \div width, (c[2] * bufs[0].h) \div height)
        ELSE mainGL2(bufs[0], width, height, c[1], c[2])

\* the colour of the pixel in the last frame
PixelColour(p) ==
    fragmentMain(backend, ShownCell(p), uniforms.hue,
                 p[1] < width /\ p[2] < height)

\* the last step computed and drew a frame that is still the current one
FrameShown ==
    presented = bufs[0].id /\ width > 0 /\ height > 0

\* the six-sector formula, as the specification states it
StandardHsl(h, s, l) ==
    LET C == (10 - Abs((2 * l) - 10)) * s * 60
        hPrime == h % 120
        X == (C * (60 - Abs(hPrime - 60))) \div 60
        m == (600 * l) - (C \div 2)
        k == h \div 60
        rgb == CASE k = 0 -> <<C, X, 0>>
                 [] k = 1 -> <<X, C, 0>>
                 [] k = 2 -> <<0, C, X>>
                 [] k = 3 -> <<0, X, C>>
                 [] k = 4 -> <<X, 0, C>>
                 [] OTHER -> <<C, 0, X>>
    IN  [i \in 1 .. 3 |-> rgb[i] + m]

(* C25: in part_000 and gol-webgl.js an alive cell is drawn in the colour   *)
(* the standard six-sector HSL to RGB formula gives for (hue, 0.8, 0.4),   *)
(* for the hue of the frame and for every whole hue in [0, 360), so that   *)
(* the two renderers give the same colour for the same hue.                *)
C25_StandardColour ==
    (backend \in {"gpu", "gl"} /\ FrameShown) =>
      /\ \A p \in Pixels :
           ShownCell(p) = 1 => PixelColour(p) = StandardHsl(uniforms.hue, 8, 4)
      /\ hsl2rgbWGSL(uniforms.hue, 8, 4) = hsl2rgbGLSL(uniforms.hue, 8, 4)
      /\ \A h \in 0 .. 359 :
           /\ fragmentMain(backend, 1, h, FALSE) = StandardHsl(h, 8, 4)
           /\ hsl2rgbWGSL(h, 8, 4) = hsl2rgbGLSL(h, 8, 4)

\* (0.08, 0.72, 0.08)
Golden == <<(8 * ColourUnit) \div 100, (72 * ColourUnit) \div 100, (8 * ColourUnit) \div 100>>

(* C26: hsl2rgb(120, 0.8, 0.4) is (0.08, 0.72, 0.08), the value of the      *)
(* standard formula, in the WebGPU and in the WebGL renderer, and a frame  *)
(* drawn with hue 120 shows every alive cell in that colour.               *)
C26_GoldenValue ==
    (backend \in {"gpu", "gl"} /\ FrameShown /\ uniforms.hue = 120) =>
      /\ hsl2rgbWGSL(120, 8, 4) = Golden
      /\ hsl2rgbGLSL(120, 8, 4) = Golden
      /\ StandardHsl(120, 8, 4) = Golden
      /\ \A p \in Pixels : ShownCell(p) = 1 => PixelColour(p) = Golden

\* part_000 has drawn a frame with live cells with the hue uniform at 120
C26_Witness ==
    /\ backend = "gpu"
    /\ FrameShown
    /\ uniforms.hue = 120
    /\ \E p \in Pixels : ShownCell(p) = 1 /\ PixelColour(p) = <<480, 4320, 480>>

(* C27: in every program the colour of a pixel is a function of the state   *)
(* of its cell and the hue alone, and every dead cell is drawn in the same *)
(* dark gray (0.1, 0.1, 0.1), whatever the hue.                            *)
C27_DeadIsDarkGray ==
    FrameShown =>
      \A p \in Pixels :
        /\ PixelColour(p) = fragmentMain(backend, ShownCell(p), uniforms.hue, FALSE)
        /\ ShownCell(p) = 0 => PixelColour(p) = Grey(1)

----------------------------------------------------------------------------
(* Faults.                                                                 *)

(* C28: a tick whose update or render step throws is transient: the        *)
(* buffer pair keeps its contents and roles, and the next frame callback   *)
(* is still scheduled, so that the loop goes on.                           *)
C28_FailedTickIsTransient ==
    [][ TickThrows => (bufs' = bufs /\ pending' >= 1) ]_vars

(* C29: when the allocation of the new pair fails in a zoom step or a       *)
(* window resize, the pair installed before and its width and height stay  *)
(* installed and intact; and once an allocation has failed the reset       *)
(* trigger does not fire again to attempt another reallocation.            *)
C29_AllocationFailureKeepsPair ==
    [][ /\ (WheelFails \/ WindowResizeFails) =>
             /\ bufs' = bufs
             /\ width' = width /\ height' = height
             /\ PairIntact'
        /\ (backend # "gl2" /\ ~PairIntact) => ~ResetFires ]_vars

(* C30: there is exactly one tick loop.  In every reachable state exactly  *)
(* one frame callback is pending: each invocation of render(), paused or   *)
(* not, reset or info trigger firing or not, schedules exactly one next   *)
(* invocation, and the wheel, click, key and window resize handlers        *)
(* schedule none.                                                          *)
C30_OneTickLoop ==
    pending = 1

\* part_000 after the reset trigger has fired, a zoom step and a click, with
\* a paused frame run at the last instant
C30_Witness ==
    /\ backend = "gpu"
    /\ pending = 1
    /\ resetSeen /\ lastInfoTime > 0
    /\ cellSize \notin {defaultCellSize, RandomCellSize(0), RandomCellSize(3), RandomCellSize(7)}
    /\ isPaused /\ pausedTickAt = now
    /\ now = Instant(MaxInstant)

----------------------------------------------------------------------------
(* Unsigned arithmetic of the compute shader.                              *)

\* the index getCellState reads for the neighbour (dx, dy) of cell (x, y)
\* on a uw x uh grid: x + u32(dx) and y + u32(dy) are u32 sums
IndexRead(uw, uh, x, y, dx, dy) ==
    getCellIndex(uw, uh, AddU32(ToU32(x), CastU32(dx)), AddU32(ToU32(y), CastU32(dy)))

\* the index of the toroidal neighbour
ToroidalIndex(uw, uh, x, y, dx, dy) ==
    (((y + dy + uh) % uh) * uw) + ((x + dx + uw) % uw)

\* grid sides far above those of the runs, checked at their edges
WideSides == {1000, 32767}

(* C31: in the compute shader of the WebGPU programs, for every cell       *)
(* (x, y) of the grid and every dx, dy in {-1, 0, 1}, getCellState(x +     *)
(* u32(dx), y + u32(dy)) reads index ((y+dy) mod height) * width + ((x+dx) *)
(* mod width): the sum modulo 2^32, with u32(-1) = 2^32 - 1, followed by   *)
(* (+ width) % width is the toroidal neighbour, and the index lies in      *)
(* [0, width * height), inside the buffer.  Also at the edges of grids     *)
(* with sides in WideSides.                                                *)
C31_UnsignedWrap ==
    (backend \in GPU) =>
      /\ \A x \in 0 .. uniforms.width - 1, y \in 0 .. uniforms.height - 1 :
           \A dx \in {0 - 1, 0, 1}, dy \in {0 - 1, 0, 1} :
             LET index == IndexRead(uniforms.width, uniforms.height, x, y, dx, dy)
             IN  /\ index = ToroidalIndex(uniforms.width, uniforms.height, x, y, dx, dy)
                 /\ 0 <= index /\ index < uniforms.width * uniforms.height
                 /\ index < Len(bufs[0].cells)
      /\ \A w \in WideSides, h \in WideSides :
           \A x \in {0, w - 1}, y \in {0, h - 1}, dx \in {0 - 1, 0, 1}, dy \in {0 - 1, 0, 1} :
             LET index == IndexRead(w, h, x, y, dx, dy)
             IN  /\ index = ToroidalIndex(w, h, x, y, dx, dy)
                 /\ 0 <= index /\ index < w * h

\* part_000 has computed a frame on the 3 x 3 grid whose live cells were
\* column 2: the cells of column 0 read it at x + u32(-1) = 2^32 - 1 and
\* were born, so the whole grid is alive
C31_Witness ==
    /\ backend = "gpu"
    /\ width = 3 /\ height = 3
    /\ presented = bufs[0].id
    /\ bufs[1].cells = <<0, 0, 1, 0, 0, 1, 0, 0, 1>>
    /\ bufs[0].cells = <<1, 1, 1, 1, 1, 1, 1, 1, 1>>
    /\ IndexRead(3, 3, 0, 0, 0 - 1, 0 - 1) = 8

----------------------------------------------------------------------------
(* Cell values.                                                            *)

\* the value each program reads at offset k of cell (x, y) of its read buffer
OffsetState(k, x, y) ==
    IF backend \in GPU
    THEN getCellState(bufs[0].cells, width, height,
                      AddU32(ToU32(x), CastU32(Offsets[k][1])),
                      AddU32(ToU32(y), CastU32(Offsets[k][2])))
    ELSE IF backend = "gl"
    THEN getCell(bufs[0], width, height, x, y, Offsets[k][1], Offsets[k][2])
    ELSE getCell2(bufs[0], width, height, x + Offsets[k][1], y + Offsets[k][2])

\* the offsets of cell (x, y) at which an alive cell is read
AliveOffsets(x, y) == {k \in 1 .. 8 : OffsetState(k, x, y) = 1}

(* C32: in every reachable state every cell of both buffers holds 0 or 1   *)
(* (allocation yields 0, a reseed writes 0 or 1, the update step writes 0  *)
(* or 1), so that for every cell the neighbour sum N, which adds the raw   *)
(* values read, is the number of offsets at which an alive cell is read    *)
(* and lies in 0 .. 8.                                                     *)
C32_CellsAreBits ==
    /\ \A i \in {0, 1} : \A k \in 1 .. Len(bufs[i].cells) : bufs[i].cells[k] \in {0, 1}
    /\ \A x \in 0 .. width - 1, y \in 0 .. height - 1 :
         /\ \A k \in 1 .. 8 : OffsetState(k, x, y) \in {0, 1}
         /\ NeighbourSum(x, y) = Cardinality(AliveOffsets(x, y))
         /\ NeighbourSum(x, y) \in 0 .. 8

\* part_000 after a reset trigger: both buffers were allocated anew, one was
\* reseeded, the other has been written by the update step, and the grid
\* has live and dead cells
C32_Witness ==
    /\ backend = "gpu"
    /\ resetSeen
    /\ presented = bufs[0].id
    /\ width * height >= 2
    /\ \E i \in 1 .. Len(bufs[0].cells) : bufs[0].cells[i] = 0
    /\ \E i \in 1 .. Len(bufs[1].cells) : bufs[1].cells[i] = 1
    /\ \E x \in 0 .. width - 1, y \in 0 .. height - 1 :
         NeighbourSum(x, y) >= 3 /\ NeighbourSum(x, y) = Cardinality(AliveOffsets(x, y))

----------------------------------------------------------------------------
(* The overlay.                                                            *)

(* C33: a message shown by the info trigger stays visible for its full     *)
(* 5000 ms: whenever the overlay is hidden, the message it showed appeared *)
(* at least 5000 ms before, so the hide timer of an earlier message never  *)
(* hides a later one early, in every interleaving of frame callbacks and   *)
(* timer callbacks.                                                        *)
C33_MessageStaysVisible ==
    [][ (overlay.shown /\ ~overlay'.shown) => now - overlay.since >= HideDelay ]_vars

----------------------------------------------------------------------------
(* Pauses and the wall-clock periods.                                      *)

\* isPaused is toggled in this step
PauseToggled == isPaused' # isPaused

(* C34: pausing neither stops nor extends the wall-clock periods.  A pause *)
(* toggle and a paused frame leave lastResetTime and lastInfoTime as they  *)
(* are; every frame that is not paused, so also the first one after a      *)
(* pause of any length, fires the reset trigger if more than 30000 ms have *)
(* passed since lastResetTime and the info trigger if more than 5000 ms    *)
(* have passed since lastInfoTime; and a reset that fires sets             *)
(* lastResetTime to now, so that exactly one reset fires for the whole     *)
(* pause: the trigger is not due again in the state the frame ends in.     *)
C34_PauseKeepsPeriods ==
    [][ /\ (PauseToggled \/ PausedTickStep) =>
             /\ lastResetTime' = lastResetTime
             /\ lastInfoTime' = lastInfoTime
        /\ TickRun =>
             /\ (now - lastResetTime > RESET_INTERVAL) => (ResetFires /\ lastResetTime' = now)
             /\ (now - lastInfoTime > DEBUG_INTERVAL) => (InfoFires /\ lastInfoTime' = now)
        /\ ResetFires =>
             /\ ~(PauseChecked /\ isPaused)
             /\ lastResetTime' = now /\ now' = now
             /\ ~(now' - lastResetTime' > RESET_INTERVAL) ]_vars

\* part_000 was paused for LongPause from the instant it started at, has
\* been resumed, and its first frame since has fired both triggers
C34_Witness ==
    /\ backend = "gpu"
    /\ now = StartTime + LongPause
    /\ ~isPaused
    /\ lastResetTime = now /\ lastInfoTime = now
    /\ resetSeen
    /\ presented = bufs[0].id

----------------------------------------------------------------------------
(* What a frame shows.                                                     *)

\* the buffer holds a random state as reset() writes it, with a live cell
IsSeed(cells) ==
    /\ \E seed \in Seeds : cells = SeedCells(seed, Len(cells))
    /\ \E i \in 1 .. Len(cells) : cells[i] = 1

(* C35: the frame presented by a tick that is not paused (gol.js,          *)
(* part_000, gol-webgl.js) shows the buffer written in that tick, never    *)
(* the buffer the tick read: the buffer drawn is the current one after the *)
(* swap, it is not the one the tick read, and it holds the successor of    *)
(* what the tick read.  A reseed writes the buffer the next tick reads, so *)
(* the first frame after a reset, zoom or resize shows the successor of    *)
(* the seed and the seed itself is never drawn.                            *)
C35_FrameShowsWrittenBuffer ==
    [][ (backend \in {"gol", "gpu", "gl"} /\ TickRun) =>
          /\ presented' = bufs'[0].id
          /\ presented' # bufs'[1].id
          /\ ~ResetFires => (presented' = bufs[1].id /\ bufs'[1] = bufs[0])
          /\ bufs'[0].cells = LifeStep(bufs'[1].cells, width', height') ]_vars

\* part_000 after a zoom step and one frame: the buffer read holds the
\* seed, and the frame drawn is its successor, which differs from it
C35_Witness ==
    /\ backend = "gpu"
    /\ ~resetSeen /\ cellSize < defaultCellSize
    /\ presented = bufs[0].id
    /\ IsSeed(bufs[1].cells)
    /\ bufs[0].cells = LifeStep(bufs[1].cells, width, height)
    /\ bufs[0].cells # bufs[1].cells

----------------------------------------------------------------------------
(* Zoom steps.                                                             *)

\* the step leaves the grid as it is: no reallocation, no reseed
GridUntouched ==
    /\ cellSize' = cellSize
    /\ width' = width /\ height' = height
    /\ bufs' = bufs
    /\ hue' = hue

(* C36 as stated: a zoom step whose clamped result equals the current cell *)
(* size (zooming out at 1, zooming in at defaultCellSize, or a wheel event *)
(* with deltaY = 0) performs no reallocation and no reseed: cellSize,      *)
(* width, height, the contents of both buffers and hue are unchanged.      *)
C36_NoOpZoom ==
    [][ /\ \A delta \in {0 - 1, 0, 1} :
             (WheelStep(delta) /\ ClampCellSize(cellSize + delta) = cellSize) => GridUntouched
        /\ (WheelStep(0 - 1) /\ cellSize = minCellSize) => GridUntouched
        /\ (WheelStep(1) /\ cellSize = defaultCellSize) => GridUntouched
        /\ WheelStep(0) => GridUntouched ]_vars

\* the new pair holds a random state just written: the seed in the buffer
\* the next frame reads (in both textures in gol-webgl.js), no successor
FreshlySeeded ==
    \E seed \in draws.seeds :
        /\ bufs'[0].cells = SeedCells(seed, width' * height')
        /\ bufs'[1].cells = IF backend = "gl" THEN bufs'[0].cells
                             ELSE Zeros(width' * height')

\* the step has recomputed the dimensions and put a new, reseeded pair in
\* place
ResizedNow ==
    /\ width' = canvasW' \div cellSize'
    /\ height' = canvasH' \div cellSize'
    /\ Reallocated
    /\ NewPairFits
    /\ FreshlySeeded

(* C37: in part_000 and gol-webgl.js a zoom step or window resize received *)
(* while paused takes effect at once: the cell size becomes the clamped    *)
(* new size, width and height are recomputed and the pair is reallocated   *)
(* and reseeded in that step, and isPaused stays true; and as long as the  *)
(* pause lasts the buffers change in no other way, so the new grid is not  *)
(* advanced by any tick until the simulation is unpaused.                  *)
C37_ZoomWhilePaused ==
    [][ (backend \in {"gpu", "gl"} /\ isPaused) =>
          /\ \A delta \in {0 - 1, 0, 1} :
               WheelStep(delta) =>
                 /\ cellSize' = ClampCellSize(cellSize + delta)
                 /\ isPaused'
                 /\ cellSize' # cellSize => ResizedNow
          /\ WindowResize => (isPaused' /\ cellSize' = cellSize /\ ResizedNow)
          /\ (isPaused' /\ bufs' # bufs) => ResizedNow ]_vars

\* part_000 was paused before its first frame, has been zoomed to cell
\* size 3 and has run a paused frame since: the grid is the seed of the
\* zoom step, nothing has been drawn
C37_Witness ==
    /\ backend = "gpu"
    /\ isPaused /\ pausedTickAt = now
    /\ cellSize = 3 /\ ~resetSeen
    /\ presented = NoBuf /\ lastInfoTime = 0
    /\ width = canvasW \div 3 /\ height = canvasH \div 3
    /\ IsSeed(bufs[0].cells)
    /\ AllDead(bufs[1].cells)

----------------------------------------------------------------------------
(* Textures and framebuffers of the WebGL programs.                        *)

(* C38: in gol-webgl.js (and part_002), in every reachable state,          *)
(* framebuffers[i] is the framebuffer whose colour attachment is           *)
(* textures[i], for i in {0, 1}: a tick swaps both arrays together and a   *)
(* resize recreates both together.  So the update step, which draws into   *)
(* framebuffers[1] and samples textures[0], writes the texture that is the *)
(* write buffer and never the texture it samples.                          *)
C38_FramebuffersFollowTextures ==
    (backend \in {"gl", "gl2"}) =>
      /\ \A i \in {0, 1} : framebuffers[i] = bufs[i].id
      /\ framebuffers[1] # bufs[0].id
      /\ bufs[0].id # bufs[1].id

\* gol-webgl.js after a reset trigger, which recreated textures and
\* framebuffers, and an odd number of frames on the new pair: both arrays
\* are in swapped order
C38_Witness ==
    /\ backend = "gl"
    /\ resetSeen
    /\ presented = bufs[0].id
    /\ bufs[0].id \in {1, 3}
    /\ framebuffers[0] = bufs[0].id /\ framebuffers[1] = bufs[1].id
    /\ framebuffers[0] = framebuffers[1] + 1
    /\ bufs[0].cells = LifeStep(bufs[1].cells, width, height)
    /\ \E i \in 1 .. Len(bufs[1].cells) : bufs[1].cells[i] = 1

----------------------------------------------------------------------------
(* Narrow grids.                                                           *)

\* the indices the eight neighbour reads of cell (x, y) address (WebGPU)
IndicesRead(x, y) ==
    {IndexRead(width, height, x, y, Offsets[k][1], Offsets[k][2]) : k \in 1 .. 8}

AllAlive(cells) == \A i \in 1 .. Len(cells) : cells[i] = 1

(* C39: on a grid with width < 3 or height < 3 the eight neighbour offsets  *)
(* do not address eight distinct cells (WebGPU programs: fewer than eight  *)
(* indices are read), and every program counts a cell once per offset that *)
(* wraps onto it: N is the sum over the eight offsets of the cell at the   *)
(* wrapped position.  When width = 1 or height = 1 a cell is read as its   *)
(* own neighbour.  N is always in 0 .. 8; on the all-alive 1 x 1 and 2 x 2 *)
(* grids N = 8 at every cell, and the grid is all dead after one tick.     *)
C39_NarrowGrids ==
    [][ (width >= 1 /\ height >= 1) =>
          /\ \A x \in 0 .. width - 1, y \in 0 .. height - 1 :
               /\ NeighbourSum(x, y) = ToroidalN(bufs[0].cells, width, height, x, y)
               /\ NeighbourSum(x, y) \in 0 .. 8
               /\ (backend \in GPU /\ (width < 3 \/ height < 3)) =>
                    Cardinality(IndicesRead(x, y)) < 8
               /\ (backend \in GPU /\ width >= 3 /\ height >= 3) =>
                    Cardinality(IndicesRead(x, y)) = 8
               /\ (backend \in GPU /\ (width = 1 \/ height = 1)) =>
                    (y * width) + x \in IndicesRead(x, y)
               /\ (width = 1 \/ height = 1) =>
                    NeighbourSum(x, y) >= 2 * CellAt(bufs[0].cells, width, x, y)
          /\ (/\ AllAlive(bufs[0].cells)
              /\ <<width, height>> \in {<<1, 1>>, <<2, 2>>}) =>
               /\ \A x \in 0 .. width - 1, y \in 0 .. height - 1 : NeighbourSum(x, y) = 8
               /\ AllDead(bufs'[0].cells) ]_vars

\* part_000 has computed a frame from the all-alive 2 x 2 grid: every cell
\* had N = 8, and the grid is all dead
C39_Witness ==
    /\ backend = "gpu"
    /\ width = 2 /\ height = 2
    /\ presented = bufs[0].id
    /\ AllAlive(bufs[1].cells)
    /\ AllDead(bufs[0].cells)
    /\ neighborsGPU(bufs[1].cells, 2, 2, 0, 0) = 8
    /\ Cardinality(IndicesRead(0, 0)) = 3

====
